---- MODULE Spec2Model ----
\* Verification model of the Apple Mail bridge: the AppleScript process
\* invoker and availability guard (src/src/services/applescript.ts), the
\* mail service with its script builders and response parsers, and the
\* tool handlers registered on top of them (src/unnamed/part_001).
\*
\* Text is modelled as a sequence of characters.  The literal words the
\* code compares against (block markers, field keys, "true", "NOT_FOUND")
\* are single characters of the alphabet, so that split, includes, indexOf
\* and trim are computed position by position exactly as the code does.
EXTENDS Integers, Sequences, FiniteSets, TLC

VARIABLES
    pEntity,      \* parser run: the entity whose parser is applied
    pin,          \* parser run: the fragments the input text is made of
    pout,         \* parser run: the records returned
    pdone,        \* parser run: the parser has returned
    store,        \* Mail: its messages, in the order Mail enumerates them
    outgoing,     \* Mail: the number of outgoing messages made so far
    mailRunning,  \* System Events: the Mail process is running
    pc,           \* the tool call: where its handler stands
    call,         \* the tool call: the tool and its validated parameters
    proc,         \* the outcome of executeAppleScriptFile
    svc,          \* the outcome of the mail service operation
    res,          \* the CallToolResult returned by the handler
    fate,         \* history: what became of the operation's subprocess
    last,         \* history: the latest completed mark-read call
    child,        \* the osascript subprocess of one executeAppleScriptFile call
    th            \* concurrent service calls: the state of each caller

pvars == <<pEntity, pin, pout, pdone>>

fvars == <<store, outgoing, mailRunning, pc, call, proc, svc, res, fate, last>>

cvars == <<child, th>>

vars == <<pEntity, pin, pout, pdone, store, outgoing, mailRunning, pc, call,
          proc, svc, res, fate, last, child, th>>

-----------------------------------------------------------------------------
\* Bounds of the model.

\* Most data events of one subprocess, stdout and stderr together.
MaxChunks == 3

\* Most lines of a single block beyond its required lines.
MaxExtra == 2

\* Longest input text of the parsers, counted in fragments.
MaxFrags == 3

\* Most messages in the mail store.
MaxMsgs == 1

\* Largest limit a search request asks for explicitly.
MaxLimit == 2

\* Most outgoing messages made by create-draft and send.
MaxOutgoing == 1

-----------------------------------------------------------------------------
\* JavaScript string primitives over sequences of characters.

NL == "\n"

Whitespace == {" ", NL}

MinOf(S) == CHOOSE x \in S : \A y \in S : x <= y

\* String.prototype.indexOf, 1-based; 0 when pat does not occur.
IndexOf(s, pat) ==
    LET hits == {i \in 1..(Len(s) - Len(pat) + 1) :
                    SubSeq(s, i, i + Len(pat) - 1) = pat}
    IN  IF hits = {} THEN 0 ELSE MinOf(hits)

\* String.prototype.includes.
Includes(s, pat) == IndexOf(s, pat) # 0

\* String.prototype.split with a non-empty separator.
RECURSIVE Split(_, _)
Split(s, sep) ==
    LET i == IndexOf(s, sep)
    IN  IF i = 0 THEN <<s>>
        ELSE <<SubSeq(s, 1, i - 1)>> \o Split(SubSeq(s, i + Len(sep), Len(s)), sep)

\* Array.prototype.filter(Boolean) on an array of strings.
FilterBoolean(parts) == SelectSeq(parts, LAMBDA p : p # <<>>)

\* Array.prototype.join.
RECURSIVE Join(_, _)
Join(parts, sep) ==
    IF parts = <<>> THEN <<>>
    ELSE IF Len(parts) = 1 THEN parts[1]
    ELSE parts[1] \o sep \o Join(Tail(parts), sep)

\* The texts of a list one after the other.
RECURSIVE Concat(_)
Concat(texts) == IF texts = <<>> THEN <<>> ELSE Head(texts) \o Concat(Tail(texts))

RECURSIVE TrimStart(_)
TrimStart(s) ==
    IF s # <<>> /\ Head(s) \in Whitespace THEN TrimStart(Tail(s)) ELSE s

RECURSIVE TrimEnd(_)
TrimEnd(s) ==
    IF s # <<>> /\ s[Len(s)] \in Whitespace
    THEN TrimEnd(SubSeq(s, 1, Len(s) - 1)) ELSE s

\* String.prototype.trim.
Trim(s) == TrimEnd(TrimStart(s))

\* String.prototype.substring(0, end) with end the 1-based index of the
\* first character left out.
SubstringTo(s, end) == SubSeq(s, 1, end - 1)

\* One KEY:value line of the block wire format.
Line(key, value) == <<key, ":">> \o value \o <<NL>>

Digits == <<"0", "1", "2", "3", "4", "5", "6", "7", "8", "9">>

IsDigit(c) == \E d \in 1..10 : Digits[d] = c

DigitValue(c) == (CHOOSE d \in 1..10 : Digits[d] = c) - 1

RECURSIVE DigitPrefix(_)
DigitPrefix(s) ==
    IF s # <<>> /\ IsDigit(Head(s)) THEN <<Head(s)>> \o DigitPrefix(Tail(s))
    ELSE <<>>

RECURSIVE DecimalValue(_)
DecimalValue(ds) ==
    IF ds = <<>> THEN 0
    ELSE 10 * DecimalValue(SubSeq(ds, 1, Len(ds) - 1)) + DigitValue(ds[Len(ds)])

NaN == [nan |-> TRUE, val |-> 0]

Num(n) == [nan |-> FALSE, val |-> n]

HexLetters == <<"a", "b", "c", "d", "e", "f">>

UpperHexLetters == <<"A", "B", "C", "D", "E", "F">>

IsHexDigit(c) ==
    IsDigit(c) \/ \E n \in 1..6 : c \in {HexLetters[n], UpperHexLetters[n]}

HexDigitValue(c) ==
    IF IsDigit(c) THEN DigitValue(c)
    ELSE 9 + (CHOOSE n \in 1..6 : c \in {HexLetters[n], UpperHexLetters[n]})

RECURSIVE HexDigitPrefix(_)
HexDigitPrefix(s) ==
    IF s # <<>> /\ IsHexDigit(Head(s)) THEN <<Head(s)>> \o HexDigitPrefix(Tail(s))
    ELSE <<>>

RECURSIVE HexValue(_)
HexValue(ds) ==
    IF ds = <<>> THEN 0
    ELSE 16 * HexValue(SubSeq(ds, 1, Len(ds) - 1)) + HexDigitValue(ds[Len(ds)])

\* parseInt(value), no radix given: leading whitespace skipped, an optional
\* sign, then radix 16 when the text goes on with 0x or 0X and radix 10
\* otherwise; the longest run of digits of the radix; NaN when there is
\* no digit.
ParseInt(value) ==
    LET t    == TrimStart(value)
        neg  == t # <<>> /\ Head(t) = "-"
        body == IF t # <<>> /\ Head(t) \in {"-", "+"} THEN Tail(t) ELSE t
        hex  == Len(body) >= 2 /\ body[1] = "0" /\ body[2] \in {"x", "X"}
        ds   == IF hex THEN HexDigitPrefix(Tail(Tail(body))) ELSE DigitPrefix(body)
        n    == IF hex THEN HexValue(ds) ELSE DecimalValue(ds)
    IN  IF ds = <<>> THEN NaN
        ELSE Num(IF neg THEN 0 - n ELSE n)

\* x > 0 on a JavaScript number; false for NaN.
GreaterThanZero(x) == ~x.nan /\ x.val > 0

-----------------------------------------------------------------------------
\* Partial<T> objects: functions from the property names that were assigned.

EmptyObject == [k \in {} |-> <<>>]

\* An assignment that keeps the value a property already has.
SetProp_FirstWins(obj, k, v) == obj @@ (k :> v)

SetProp(obj, k, v) == (k :> v) @@ obj

Defined(obj, k) == k \in DOMAIN obj

\* Truthiness of a string property: defined and not the empty string.
Truthy(obj, k) == Defined(obj, k) /\ obj[k] # <<>>

\* The value taken from the second part alone: line.split(':')[1].
LineValue_SecondPart(line) ==
    LET parts == Split(line, <<":">>)
    IN  Trim(IF Len(parts) > 1 THEN parts[2] ELSE <<>>)

\* const [key, ...valueParts] = line.split(':')
LineKey(line) == Head(Split(line, <<":">>))

\* valueParts.join(':').trim()
LineValue(line) == Trim(Join(Tail(Split(line, <<":">>)), <<":">>))

\* block.substring(0, block.indexOf(END)).split('\n').filter(Boolean)
BlockLines(block, endMarker) ==
    FilterBoolean(Split(SubstringTo(block, IndexOf(block, <<endMarker>>)), <<NL>>))

\* The splitting with the end of a segment taken as the end of its block.
Blocks_EndOfSegment(output, startMarker, endMarker) ==
    LET segments == FilterBoolean(Split(output, <<startMarker, NL>>))
    IN  [n \in 1..Len(segments) |->
            IF Includes(segments[n], <<endMarker>>) THEN segments[n]
            ELSE segments[n] \o <<endMarker>>]

\* output.split(START + '\n').filter(Boolean), then the blocks that
\* include the end marker.
Blocks(output, startMarker, endMarker) ==
    SelectSeq(FilterBoolean(Split(output, <<startMarker, NL>>)),
              LAMBDA b : Includes(b, <<endMarker>>))

-----------------------------------------------------------------------------
\* Response parsers.

\* The switch with the two flags compared without regard to case.
MessageAssign_AnyCase(message, line) ==
    LET key   == LineKey(line)
        value == LineValue(line)
    IN  CASE key = <<"ID">>       -> SetProp(message, "id", value)
          [] key = <<"SUBJECT">>  -> SetProp(message, "subject", value)
          [] key = <<"SENDER">>   -> SetProp(message, "sender", value)
          [] key = <<"RECIPIENTS">> ->
                SetProp(message, "recipients", FilterBoolean(Split(value, <<",">>)))
          [] key = <<"DATE">>     -> SetProp(message, "date", value)
          [] key = <<"READ">>     ->
                SetProp(message, "read", value \in {<<"true">>, <<"TRUE">>})
          [] key = <<"FLAGGED">>  ->
                SetProp(message, "flagged", value \in {<<"true">>, <<"TRUE">>})
          [] key = <<"MAILBOX">>  -> SetProp(message, "mailbox", value)
          [] key = <<"ACCOUNT">>  -> SetProp(message, "account", value)
          [] key = <<"ATTACHMENT_COUNT">> ->
                SetProp(SetProp(message, "attachmentCount", ParseInt(value)),
                        "hasAttachments", GreaterThanZero(ParseInt(value)))
          [] key = <<"CONTENT">>  -> SetProp(message, "content", value)
          [] OTHER -> message

\* The switch of parseEmailMessages applied to one line.
MessageAssign(message, line) ==
    LET key   == LineKey(line)
        value == LineValue(line)
    IN  CASE key = <<"ID">>       -> SetProp(message, "id", value)
          [] key = <<"SUBJECT">>  -> SetProp(message, "subject", value)
          [] key = <<"SENDER">>   -> SetProp(message, "sender", value)
          [] key = <<"RECIPIENTS">> ->
                SetProp(message, "recipients", FilterBoolean(Split(value, <<",">>)))
          [] key = <<"DATE">>     -> SetProp(message, "date", value)
          [] key = <<"READ">>     -> SetProp(message, "read", value = <<"true">>)
          [] key = <<"FLAGGED">>  -> SetProp(message, "flagged", value = <<"true">>)
          [] key = <<"MAILBOX">>  -> SetProp(message, "mailbox", value)
          [] key = <<"ACCOUNT">>  -> SetProp(message, "account", value)
          [] key = <<"ATTACHMENT_COUNT">> ->
                SetProp(SetProp(message, "attachmentCount", ParseInt(value)),
                        "hasAttachments", GreaterThanZero(ParseInt(value)))
          [] key = <<"CONTENT">>  -> SetProp(message, "content", value)
          [] OTHER -> message

RECURSIVE MessageOfLines(_, _)
MessageOfLines(message, lines) ==
    IF lines = <<>> THEN message
    ELSE MessageOfLines(MessageAssign(message, Head(lines)), Tail(lines))

\* The required-field test with the subject forgotten.
MessageKept_IdOnly(message) == Truthy(message, "id")

\* if (message.id && message.subject) messages.push(message)
MessageKept(message) == Truthy(message, "id") /\ Truthy(message, "subject")

RECURSIVE MessagesOfBlocks(_)
MessagesOfBlocks(blocks) ==
    IF blocks = <<>> THEN <<>>
    ELSE LET message == MessageOfLines(EmptyObject,
                                       BlockLines(Head(blocks), "MESSAGE_END"))
         IN  (IF MessageKept(message) THEN <<message>> ELSE <<>>)
             \o MessagesOfBlocks(Tail(blocks))

parseEmailMessages(output) ==
    MessagesOfBlocks(Blocks(output, "MESSAGE_START", "MESSAGE_END"))

\* The switch of parseMailboxes applied to one line.
MailboxAssign(mailbox, line) ==
    LET key   == LineKey(line)
        value == LineValue(line)
    IN  CASE key = <<"NAME">>    -> SetProp(mailbox, "name", value)
          [] key = <<"ACCOUNT">> -> SetProp(mailbox, "account", value)
          [] key = <<"UNREAD">>  -> SetProp(mailbox, "unreadCount", ParseInt(value))
          [] key = <<"TOTAL">>   -> SetProp(mailbox, "totalCount", ParseInt(value))
          [] OTHER -> mailbox

RECURSIVE MailboxOfLines(_, _)
MailboxOfLines(mailbox, lines) ==
    IF lines = <<>> THEN mailbox
    ELSE MailboxOfLines(MailboxAssign(mailbox, Head(lines)), Tail(lines))

\* The required-field test with the account tested for truthiness.
MailboxKept_AccountTruthy(mailbox) == Truthy(mailbox, "name") /\ Truthy(mailbox, "account")

\* if (mailbox.name && mailbox.account !== undefined) mailboxes.push(mailbox)
MailboxKept(mailbox) == Truthy(mailbox, "name") /\ Defined(mailbox, "account")

RECURSIVE MailboxesOfBlocks(_)
MailboxesOfBlocks(blocks) ==
    IF blocks = <<>> THEN <<>>
    ELSE LET mailbox == MailboxOfLines(EmptyObject,
                                       BlockLines(Head(blocks), "MAILBOX_END"))
         IN  (IF MailboxKept(mailbox) THEN <<mailbox>> ELSE <<>>)
             \o MailboxesOfBlocks(Tail(blocks))

parseMailboxes(output) ==
    MailboxesOfBlocks(Blocks(output, "MAILBOX_START", "MAILBOX_END"))

\* The switch of parseAccounts applied to one line.
AccountAssign(account, line) ==
    LET key   == LineKey(line)
        value == LineValue(line)
    IN  CASE key = <<"NAME">> -> SetProp(account, "name", value)
          [] key = <<"TYPE">> -> SetProp(account, "type", value)
          [] OTHER -> account

RECURSIVE AccountOfLines(_, _)
AccountOfLines(account, lines) ==
    IF lines = <<>> THEN account
    ELSE AccountOfLines(AccountAssign(account, Head(lines)), Tail(lines))

\* if (account.name && account.type) accounts.push(account)
AccountKept(account) == Truthy(account, "name") /\ Truthy(account, "type")

RECURSIVE AccountsOfBlocks(_)
AccountsOfBlocks(blocks) ==
    IF blocks = <<>> THEN <<>>
    ELSE LET account == AccountOfLines(SetProp(EmptyObject, "email", <<>>),
                                       BlockLines(Head(blocks), "ACCOUNT_END"))
         IN  (IF AccountKept(account) THEN <<account>> ELSE <<>>)
             \o AccountsOfBlocks(Tail(blocks))

parseAccounts(output) ==
    AccountsOfBlocks(Blocks(output, "ACCOUNT_START", "ACCOUNT_END"))

\* if (key === 'NAME') attachment.name = value
AttachmentAssign(attachment, line) ==
    IF LineKey(line) = <<"NAME">>
    THEN SetProp(attachment, "name", LineValue(line))
    ELSE attachment

RECURSIVE AttachmentOfLines(_, _)
AttachmentOfLines(attachment, lines) ==
    IF lines = <<>> THEN attachment
    ELSE AttachmentOfLines(AttachmentAssign(attachment, Head(lines)), Tail(lines))

\* if (attachment.name) attachments.push(attachment)
AttachmentKept(attachment) == Truthy(attachment, "name")

RECURSIVE AttachmentsOfBlocks(_)
AttachmentsOfBlocks(blocks) ==
    IF blocks = <<>> THEN <<>>
    ELSE LET attachment == AttachmentOfLines(EmptyObject,
                                   BlockLines(Head(blocks), "ATTACHMENT_END"))
         IN  (IF AttachmentKept(attachment) THEN <<attachment>> ELSE <<>>)
             \o AttachmentsOfBlocks(Tail(blocks))

parseAttachments(output) ==
    AttachmentsOfBlocks(Blocks(output, "ATTACHMENT_START", "ATTACHMENT_END"))

-----------------------------------------------------------------------------
\* Optional parameters: <<>> is undefined, <<x>> is the value x.

None == <<>>

Some(x) == <<x>>

\* Truthiness of an optional string: supplied and not the empty string.
Given(opt) == opt # None /\ opt[1] # <<>>

BoolText(b) == IF b THEN <<"true">> ELSE <<"false">>

\* A small non-negative number as text.
RECURSIVE NatText(_)
NatText(n) ==
    IF n < 10 THEN <<Digits[n + 1]>> ELSE NatText(n \div 10) \o <<Digits[(n % 10) + 1]>>

-----------------------------------------------------------------------------
\* The mail store of the Mail application, which the scripts act on.

PlaceList == <<[account |-> <<"A">>, mailbox |-> <<"I">>],
              [account |-> <<"B">>, mailbox |-> <<"W">>]>>

Places == {PlaceList[n] : n \in 1..Len(PlaceList)}

AccountNames == <<<<"A">>, <<"B">>>>

\* The inbox of every account is the mailbox named I.
InboxName == <<"I">>

\* A body that ends its own block and opens another one.
HostileContent ==
    <<"c", NL, "MESSAGE_END", NL, "MESSAGE_START", NL,
      "ID", ":", "7", NL, "SUBJECT", ":", "z">>

Flavours == {"plain", "nosubject", "hostile"}

StoredMessage(i, place, read, flavour) ==
    [id          |-> <<Digits[i + 1]>>,
     subject     |-> IF flavour = "nosubject" THEN <<>> ELSE <<"s">>,
     sender      |-> <<"a", "@", "b">>,
     date        |-> <<"d">>,
     read        |-> read,
     flagged     |-> FALSE,
     content     |-> IF flavour = "hostile" THEN HostileContent ELSE <<"c">>,
     mailbox     |-> place.mailbox,
     account     |-> place.account,
     recipients  |-> <<<<"r", "@", "x">>>>,
     attachments |-> IF flavour = "plain" THEN <<<<"f">>>> ELSE <<>>]

Stores ==
    UNION {{[i \in 1..n |-> StoredMessage(i, f[i][1], f[i][2], f[i][3])] :
                f \in [1..n -> Places \X BOOLEAN \X Flavours]} : n \in 0..MaxMsgs}

MessageIds == {<<Digits[i + 1]>> : i \in 1..(MaxMsgs + 1)}

HasMessage(st, id) == \E n \in 1..Len(st) : st[n].id = id

IndexOfMessage(st, id) == MinOf({n \in 1..Len(st) : st[n].id = id})

MailboxExists(account, mailbox) ==
    [account |-> account, mailbox |-> mailbox] \in Places

MailboxNamed(mailbox) == \E p \in Places : p.mailbox = mailbox

-----------------------------------------------------------------------------
\* Script builders.  A script is the record of the statements the builder
\* chose and of the values it interpolated; the statements every script of
\* the operation has are given their meaning by the operators under Mail.

\* The branches in the wrong order: the mailbox alone is tested first.
SearchSource_MailboxFirst(mailbox, account) ==
    IF Given(mailbox) THEN <<"mailbox", mailbox[1]>>
    ELSE IF Given(mailbox) /\ Given(account)
    THEN <<"mailbox of account", mailbox[1], account[1]>>
    ELSE IF Given(account) THEN <<"every message of account", account[1]>>
    ELSE <<"inbox">>

\* searchEmails: "Determine which mailbox to search".
SearchSource(mailbox, account) ==
    IF Given(mailbox) /\ Given(account)
    THEN <<"mailbox of account", mailbox[1], account[1]>>
    ELSE IF Given(mailbox) THEN <<"mailbox", mailbox[1]>>
    ELSE IF Given(account) THEN <<"every message of account", account[1]>>
    ELSE <<"inbox">>

\* searchEmails: "Build filter conditions".
SearchConditions(p) ==
    (IF Given(p.query) THEN <<<<"subject or content contains", p.query[1]>>>> ELSE <<>>)
    \o (IF Given(p.sender) THEN <<<<"sender contains", p.sender[1]>>>> ELSE <<>>)
    \o (IF Given(p.subject) THEN <<<<"subject contains", p.subject[1]>>>> ELSE <<>>)
    \o (IF p.unreadOnly THEN <<<<"read status is false">>>> ELSE <<>>)

DefaultLimit == 50

\* const { ..., limit = 50 } = params
LimitOf(p) == IF p.limit = None THEN DefaultLimit ELSE p.limit[1]

SearchScript(p) ==
    [kind       |-> "search",
     source     |-> SearchSource(p.mailbox, p.account),
     conditions |-> SearchConditions(p),
     limit      |-> LimitOf(p)]

\* The lookup with a branch of its own for an account given alone, as the
\* search has.
GetLookup_AccountScoped(messageId, mailbox, account) ==
    IF Given(mailbox) /\ Given(account)
    THEN <<"mailbox of account", mailbox[1], account[1]>>
    ELSE IF Given(mailbox) THEN <<"mailbox", mailbox[1]>>
    ELSE IF Given(account) THEN <<"every message of account", account[1]>>
    ELSE <<"every message">>

\* getEmailById: the lookup statement.
GetLookup(messageId, mailbox, account) ==
    IF Given(mailbox) /\ Given(account)
    THEN <<"mailbox of account", mailbox[1], account[1]>>
    ELSE IF Given(mailbox) THEN <<"mailbox", mailbox[1]>>
    ELSE <<"every message">>

GetScript(messageId, mailbox, account) ==
    [kind |-> "get", lookup |-> GetLookup(messageId, mailbox, account), id |-> messageId]

ListMailboxesScript == [kind |-> "listMailboxes"]

ListAccountsScript == [kind |-> "listAccounts"]

\* The recipient statements of createDraft and sendEmail, in order.
RecipientStatements(draft) ==
    [n \in 1..Len(draft.to) |-> <<"make new to recipient", draft.to[n]>>]
    \o (IF draft.cc # None
        THEN [n \in 1..Len(draft.cc[1]) |-> <<"make new cc recipient", draft.cc[1][n]>>]
        ELSE <<>>)
    \o (IF draft.bcc # None
        THEN [n \in 1..Len(draft.bcc[1]) |-> <<"make new bcc recipient", draft.bcc[1][n]>>]
        ELSE <<>>)

CreateDraftScript(draft) ==
    [kind       |-> "outgoing",
     properties |-> [subject |-> draft.subject, content |-> draft.content, visible |-> FALSE],
     statements |-> RecipientStatements(draft)]

SendScript(draft) ==
    [kind       |-> "outgoing",
     properties |-> [subject |-> draft.subject, content |-> draft.content, visible |-> FALSE],
     statements |-> RecipientStatements(draft) \o <<<<"send">>>>]

\* The text of the two scripts, as the template strings and the loops put it
\* together: fixed pieces are single atoms, interpolated values are spliced
\* in character by character between double quotes.
DQ == "\""

MakeRecipient(kind) ==
    CASE kind = "to"  -> "make new to recipient with properties {address:"
      [] kind = "cc"  -> "make new cc recipient with properties {address:"
      [] kind = "bcc" -> "make new bcc recipient with properties {address:"

\* script += `make new to recipient with properties {address:"${addr}"}\n`
RecipientLine(kind, addr) == <<MakeRecipient(kind), DQ>> \o addr \o <<DQ, "}", NL>>

RecipientLines(draft) ==
    Concat([n \in 1..Len(draft.to) |-> RecipientLine("to", draft.to[n])])
    \o (IF draft.cc # None
        THEN Concat([n \in 1..Len(draft.cc[1]) |-> RecipientLine("cc", draft.cc[1][n])])
        ELSE <<>>)
    \o (IF draft.bcc # None
        THEN Concat([n \in 1..Len(draft.bcc[1]) |-> RecipientLine("bcc", draft.bcc[1][n])])
        ELSE <<>>)

OutgoingHead(draft) ==
    <<"tell application Mail", NL,
      "set newMessage to make new outgoing message with properties {subject:", DQ>>
    \o draft.subject \o <<DQ, ", content:", DQ>> \o draft.content
    \o <<DQ, ", visible:false}", NL, "tell newMessage", NL>>

CreateDraftText(draft) ==
    OutgoingHead(draft) \o RecipientLines(draft)
    \o <<"end tell", NL, "return id of newMessage as text", NL, "end tell", NL>>

SendText(draft) ==
    OutgoingHead(draft) \o RecipientLines(draft)
    \o <<"send", NL, "end tell", NL, "return id of newMessage as text", NL, "end tell", NL>>

\* The statements osascript reads in a script text: a line feed outside a
\* string literal ends a statement, a double quote opens or closes a
\* literal, empty statements are dropped.
RECURSIVE ScanStatements(_, _, _, _)
ScanStatements(text, inLiteral, current, done) ==
    IF text = <<>> THEN (IF current = <<>> THEN done ELSE Append(done, current))
    ELSE IF Head(text) = NL /\ ~inLiteral
    THEN ScanStatements(Tail(text), FALSE, <<>>,
                        IF current = <<>> THEN done ELSE Append(done, current))
    ELSE ScanStatements(Tail(text), IF Head(text) = DQ THEN ~inLiteral ELSE inLiteral,
                        Append(current, Head(text)), done)

Statements(text) == ScanStatements(text, FALSE, <<>>, <<>>)

\* moveEmail: the statement resolving the target mailbox.
MoveTarget(targetMailbox, targetAccount) ==
    IF Given(targetAccount)
    THEN <<"mailbox of account", targetMailbox, targetAccount[1]>>
    ELSE <<"mailbox", targetMailbox>>

MoveScript(messageId, targetMailbox, targetAccount) ==
    [kind |-> "move", id |-> messageId, target |-> MoveTarget(targetMailbox, targetAccount)]

\* The read parameter not interpolated: the script always marks as read.
SetReadScript_AlwaysRead(messageId, read) ==
    [kind |-> "setRead", id |-> messageId, read |-> TRUE]

SetReadScript(messageId, read) == [kind |-> "setRead", id |-> messageId, read |-> read]

AttachmentsScript(messageId) == [kind |-> "attachments", id |-> messageId]

-----------------------------------------------------------------------------
\* Mail running a script: the exit status of osascript, what it wrote, and
\* the store and the outgoing messages afterwards.

\* Mail marking every message read whenever it runs a script.
Ran_MarksRead(stdout, st, og) ==
    [code |-> 0, stdout |-> stdout \o <<NL>>, stderr |-> <<>>,
     store |-> [n \in 1..Len(st) |-> [st[n] EXCEPT !.read = TRUE]], outgoing |-> og]

Ran(stdout, st, og) ==
    [code |-> 0, stdout |-> stdout \o <<NL>>, stderr |-> <<>>, store |-> st, outgoing |-> og]

ScriptError(st, og) ==
    [code |-> 1, stdout |-> <<>>, stderr |-> <<"execution error">>,
     store |-> st, outgoing |-> og]

\* The collection a source or lookup statement denotes; ok is false when
\* the mailbox or account it names does not exist.
Collection(source, st) ==
    CASE source[1] = "mailbox of account" ->
            [ok   |-> MailboxExists(source[3], source[2]),
             msgs |-> SelectSeq(st, LAMBDA m : m.mailbox = source[2] /\ m.account = source[3])]
      [] source[1] = "mailbox" ->
            [ok   |-> MailboxNamed(source[2]),
             msgs |-> SelectSeq(st, LAMBDA m : m.mailbox = source[2])]
      [] source[1] = "every message of account" ->
            [ok   |-> \E p \in Places : p.account = source[2],
             msgs |-> SelectSeq(st, LAMBDA m : m.account = source[2])]
      [] source[1] = "inbox" ->
            [ok |-> TRUE, msgs |-> SelectSeq(st, LAMBDA m : m.mailbox = InboxName)]
      [] source[1] = "every message" -> [ok |-> TRUE, msgs |-> st]

Satisfies(m, cond) ==
    CASE cond[1] = "subject or content contains" ->
            Includes(m.subject, cond[2]) \/ Includes(m.content, cond[2])
      [] cond[1] = "sender contains"  -> Includes(m.sender, cond[2])
      [] cond[1] = "subject contains" -> Includes(m.subject, cond[2])
      [] cond[1] = "read status is false" -> m.read = FALSE

\* repeat with aMessage in allMessages ... if (count of matchingMessages)
\* >= limit then exit repeat
RECURSIVE Collect(_, _, _, _)
Collect(msgs, conditions, limit, matching) ==
    IF msgs = <<>> THEN matching
    ELSE LET m    == Head(msgs)
             next == IF \A c \in 1..Len(conditions) : Satisfies(m, conditions[c])
                     THEN Append(matching, m) ELSE matching
         IN  IF Len(next) >= limit THEN next
             ELSE Collect(Tail(msgs), conditions, limit, next)

\* The block the search script writes for one message.
SearchBlock(m) ==
    <<"MESSAGE_START", NL>>
    \o Line("ID", m.id) \o Line("SUBJECT", m.subject) \o Line("SENDER", m.sender)
    \o Line("DATE", m.date) \o Line("READ", BoolText(m.read))
    \o Line("FLAGGED", BoolText(m.flagged)) \o Line("CONTENT", m.content)
    \o <<"MESSAGE_END", NL>>

\* The block the fetch-by-id script writes.
GetBlock(m) ==
    <<"MESSAGE_START", NL>>
    \o Line("ID", m.id) \o Line("SUBJECT", m.subject) \o Line("SENDER", m.sender)
    \o Line("RECIPIENTS",
            Concat([n \in 1..Len(m.recipients) |-> m.recipients[n] \o <<",">>]))
    \o Line("DATE", m.date) \o Line("READ", BoolText(m.read))
    \o Line("FLAGGED", BoolText(m.flagged)) \o Line("MAILBOX", m.mailbox)
    \o Line("ACCOUNT", m.account)
    \o Line("ATTACHMENT_COUNT", NatText(Len(m.attachments)))
    \o Line("CONTENT", m.content)
    \o <<"MESSAGE_END", NL>>

MailboxBlock(place, st) ==
    LET inside == SelectSeq(st, LAMBDA m : m.mailbox = place.mailbox /\ m.account = place.account)
    IN  <<"MAILBOX_START", NL>>
        \o Line("NAME", place.mailbox) \o Line("ACCOUNT", place.account)
        \o Line("UNREAD", NatText(Len(SelectSeq(inside, LAMBDA m : ~m.read))))
        \o Line("TOTAL", NatText(Len(inside)))
        \o <<"MAILBOX_END", NL>>

AccountBlock(name) ==
    <<"ACCOUNT_START", NL>> \o Line("NAME", name) \o Line("TYPE", <<"imap">>)
    \o <<"ACCOUNT_END", NL>>

AttachmentBlock(name) ==
    <<"ATTACHMENT_START", NL>> \o Line("NAME", name) \o <<"ATTACHMENT_END", NL>>

\* The place a target statement resolves to; none when it does not exist.
ResolvePlace(target) ==
    LET hits == {n \in 1..Len(PlaceList) :
                    /\ PlaceList[n].mailbox = target[2]
                    /\ target[1] = "mailbox of account" => PlaceList[n].account = target[3]}
    IN  IF hits = {} THEN None ELSE Some(PlaceList[MinOf(hits)])

\* The move script with the container reassigned by name before the
\* target is resolved.
MailMoves_AssignsFirst(script, st, og) ==
    IF ~HasMessage(st, script.id) THEN ScriptError(st, og)
    ELSE LET named == [st EXCEPT ![IndexOfMessage(st, script.id)].mailbox = script.target[2]]
         IN  IF ResolvePlace(script.target) = None THEN ScriptError(named, og)
             ELSE Ran(<<"SUCCESS">>,
                      [named EXCEPT ![IndexOfMessage(st, script.id)].account =
                                        ResolvePlace(script.target)[1].account],
                      og)

\* set theMessage to first message whose id is ...; set targetBox to
\* mailbox ...; set mailbox of theMessage to targetBox; return "SUCCESS":
\* the first statement that fails ends the script.
MailMoves(script, st, og) ==
    IF ~HasMessage(st, script.id) \/ ResolvePlace(script.target) = None
    THEN ScriptError(st, og)
    ELSE LET place == ResolvePlace(script.target)[1]
         IN  Ran(<<"SUCCESS">>,
                 [st EXCEPT ![IndexOfMessage(st, script.id)].mailbox = place.mailbox,
                            ![IndexOfMessage(st, script.id)].account = place.account],
                 og)

MailRuns(script, st, og) ==
    CASE script.kind = "search" ->
            LET c == Collection(script.source, st)
            IN  IF ~c.ok THEN ScriptError(st, og)
                ELSE LET found == Collect(c.msgs, script.conditions, script.limit, <<>>)
                     IN  Ran(Concat([n \in 1..Len(found) |-> SearchBlock(found[n])]), st, og)
      [] script.kind = "get" ->
            LET c == Collection(script.lookup, st)
            IN  IF ~c.ok THEN ScriptError(st, og)
                ELSE LET msgs == SelectSeq(c.msgs, LAMBDA m : m.id = script.id)
                     IN  IF Len(msgs) = 0 THEN Ran(<<"NOT_FOUND">>, st, og)
                         ELSE Ran(GetBlock(msgs[1]), st, og)
      [] script.kind = "listMailboxes" ->
            Ran(Concat([n \in 1..Len(PlaceList) |-> MailboxBlock(PlaceList[n], st)]), st, og)
      [] script.kind = "listAccounts" ->
            Ran(Concat([n \in 1..Len(AccountNames) |-> AccountBlock(AccountNames[n])]), st, og)
      [] script.kind = "outgoing" ->
            Ran(NatText(MaxMsgs + 2 + og), st, og + 1)
      [] script.kind = "move" -> MailMoves(script, st, og)
      [] script.kind = "setRead" ->
            IF ~HasMessage(st, script.id) THEN ScriptError(st, og)
            ELSE Ran(<<"SUCCESS">>,
                     [st EXCEPT ![IndexOfMessage(st, script.id)].read = script.read], og)
      [] script.kind = "attachments" ->
            IF ~HasMessage(st, script.id) THEN ScriptError(st, og)
            ELSE LET names == st[IndexOfMessage(st, script.id)].attachments
                 IN  Ran(Concat([n \in 1..Len(names) |-> AttachmentBlock(names[n])]), st, og)

\* osascript fails for a reason outside the script (Mail busy, automation
\* not authorized): no statement of the script takes effect.
Refused(st, og) ==
    [code |-> 1, stdout |-> <<>>, stderr |-> <<"not authorized">>,
     store |-> st, outgoing |-> og]

-----------------------------------------------------------------------------
\* Process invoker (applescript.ts).

NoOutcome == [kind |-> "none", value |-> <<>>, message |-> <<>>]

Resolved(value) == [kind |-> "resolve", value |-> value, message |-> <<>>]

Rejected(message) == [kind |-> "reject", value |-> <<>>, message |-> message]

\* The code of a close event when a signal ended the subprocess: null.
NullCode == -1

\* `${code}`
CodeText(code) == IF code = NullCode THEN <<"null">> ELSE NatText(code)

\* osascript.on('error', ...)
OnError(message) == Rejected(<<"AppleScript execution failed: ">> \o message)

\* The close handler treating any stderr output as a failure.
OnClose_StderrFails(code, stdout, stderr) ==
    IF code # 0 \/ stderr # <<>>
    THEN Rejected(<<"AppleScript execution failed with code ">> \o CodeText(code)
                  \o <<": ">> \o stderr)
    ELSE Resolved(Trim(stdout))

\* osascript.on('close', (code) => ...)
OnClose(code, stdout, stderr) ==
    IF code # 0
    THEN Rejected(<<"AppleScript execution failed with code ">> \o CodeText(code)
                  \o <<": ">> \o stderr)
    ELSE Resolved(Trim(stdout))

\* executeAppleScript: stdout.trim(), or the exec failure rethrown.
ExecuteAppleScript(failed, stdout) ==
    IF failed THEN Rejected(<<"AppleScript execution failed: ", "Command failed">>)
    ELSE Resolved(Trim(stdout))

ToLowerCase(s) == [n \in 1..Len(s) |-> IF s[n] = "TRUE" THEN "true" ELSE s[n]]

\* isMailRunning: the comparison with 'true', false when the check throws.
IsMailRunning(outcome) ==
    IF outcome.kind = "reject" THEN FALSE ELSE ToLowerCase(outcome.value) = <<"true">>

-----------------------------------------------------------------------------
\* Mail service: what each operation does once its script has settled.

Returned(value) == [kind |-> "return", value |-> value, message |-> <<>>]

Thrown(message) == [kind |-> "throw", value |-> <<>>, message |-> message]

\* return parseEmailMessages(result)
SearchEmailsResult(outcome) ==
    IF outcome.kind = "reject" THEN Thrown(outcome.message)
    ELSE Returned(parseEmailMessages(outcome.value))

\* The sentinel reported by throwing instead of by returning null.
GetEmailByIdResult_ThrowOnMiss(outcome) ==
    IF outcome.kind = "reject" THEN Thrown(outcome.message)
    ELSE IF outcome.value = <<"NOT_FOUND">> THEN Thrown(<<"Message not found">>)
    ELSE LET emails == parseEmailMessages(outcome.value)
         IN  Returned(IF emails # <<>> THEN Some(emails[1]) ELSE None)

\* if (result === 'NOT_FOUND') return null; ... return emails[0] || null
GetEmailByIdResult(outcome) ==
    IF outcome.kind = "reject" THEN Thrown(outcome.message)
    ELSE IF outcome.value = <<"NOT_FOUND">> THEN Returned(None)
    ELSE LET emails == parseEmailMessages(outcome.value)
         IN  Returned(IF emails # <<>> THEN Some(emails[1]) ELSE None)

ListMailboxesResult(outcome) ==
    IF outcome.kind = "reject" THEN Thrown(outcome.message)
    ELSE Returned(parseMailboxes(outcome.value))

ListAccountsResult(outcome) ==
    IF outcome.kind = "reject" THEN Thrown(outcome.message)
    ELSE Returned(parseAccounts(outcome.value))

GetAttachmentsResult(outcome) ==
    IF outcome.kind = "reject" THEN Thrown(outcome.message)
    ELSE Returned(parseAttachments(outcome.value))

CreateDraftResult(outcome) ==
    IF outcome.kind = "reject" THEN Thrown(outcome.message)
    ELSE Returned(outcome.value)

\* try { ... return {success: true, messageId} } catch (error) { return
\* {success: false, error: error.message} }
SendEmailResult(outcome) ==
    IF outcome.kind = "reject"
    THEN Returned([success |-> FALSE, error |-> outcome.message])
    ELSE Returned([success |-> TRUE, messageId |-> outcome.value])

\* try { await executeAppleScriptFile(script); return true } catch { return false }
MoveEmailResult(outcome) == Returned(outcome.kind # "reject")

SetReadStatusResult(outcome) == Returned(outcome.kind # "reject")

-----------------------------------------------------------------------------
\* Tool handlers (registerTools) and the schemas their parameters pass.

Tools == {"apple_mail_search", "apple_mail_get_email", "apple_mail_list_mailboxes",
          "apple_mail_get_attachments", "apple_mail_move_email", "apple_mail_mark_read",
          "apple_mail_create_draft", "apple_mail_send_email", "apple_mail_list_accounts"}

\* SearchEmailsSchema: unread_only defaults to false, limit to 50.
SearchEmailsSchema(input) ==
    [query       |-> input.query,
     sender      |-> input.sender,
     subject     |-> input.subject,
     mailbox     |-> input.mailbox,
     account     |-> input.account,
     unread_only |-> IF input.unread_only = None THEN FALSE ELSE input.unread_only[1],
     limit       |-> IF input.limit = None THEN 50 ELSE input.limit[1]]

\* The draft object the create-draft and send handlers pass on.
DraftOf(params) ==
    [subject |-> params.subject, to |-> params.to, cc |-> params.cc,
     bcc |-> params.bcc, content |-> params.content, account |-> params.account]

\* The script the operation behind the tool builds from its arguments.
ServiceScript(c) ==
    CASE c.tool = "apple_mail_search" ->
            SearchScript([query |-> c.params.query, sender |-> c.params.sender,
                          subject |-> c.params.subject, mailbox |-> c.params.mailbox,
                          account |-> c.params.account,
                          unreadOnly |-> c.params.unread_only,
                          limit |-> Some(c.params.limit)])
      [] c.tool = "apple_mail_get_email" ->
            GetScript(c.params.message_id, c.params.mailbox, c.params.account)
      [] c.tool = "apple_mail_list_mailboxes" -> ListMailboxesScript
      [] c.tool = "apple_mail_list_accounts" -> ListAccountsScript
      [] c.tool = "apple_mail_get_attachments" -> AttachmentsScript(c.params.message_id)
      [] c.tool = "apple_mail_move_email" ->
            MoveScript(c.params.message_id, c.params.target_mailbox, c.params.target_account)
      [] c.tool = "apple_mail_mark_read" ->
            SetReadScript(c.params.message_id, c.params.read)
      [] c.tool = "apple_mail_create_draft" -> CreateDraftScript(DraftOf(c.params))
      [] c.tool = "apple_mail_send_email" -> SendScript(DraftOf(c.params))

ServiceResult(c, outcome) ==
    CASE c.tool = "apple_mail_search" -> SearchEmailsResult(outcome)
      [] c.tool = "apple_mail_get_email" -> GetEmailByIdResult(outcome)
      [] c.tool = "apple_mail_list_mailboxes" -> ListMailboxesResult(outcome)
      [] c.tool = "apple_mail_list_accounts" -> ListAccountsResult(outcome)
      [] c.tool = "apple_mail_get_attachments" -> GetAttachmentsResult(outcome)
      [] c.tool = "apple_mail_move_email" -> MoveEmailResult(outcome)
      [] c.tool = "apple_mail_mark_read" -> SetReadStatusResult(outcome)
      [] c.tool = "apple_mail_create_draft" -> CreateDraftResult(outcome)
      [] c.tool = "apple_mail_send_email" -> SendEmailResult(outcome)

NoResult == [isError |-> FALSE, text |-> <<>>, structuredContent |-> None]

\* The catch clause of every handler.
ErrorResult(prefix, message) ==
    [isError |-> TRUE, text |-> <<prefix>> \o message, structuredContent |-> None]

\* A result carrying output as JSON text and as structured content.
OutputResult(output) ==
    [isError |-> FALSE, text |-> <<"JSON.stringify", output>>,
     structuredContent |-> Some(output)]

TruncateAt == 500

\* email.content.substring(0, 500) + (email.content.length > 500 ? '...' : '')
Truncate(content) ==
    IF Len(content) > TruncateAt
    THEN SubSeq(content, 1, TruncateAt) \o <<"...">> ELSE content

TruncatedEmail(email) ==
    [id |-> email.id, subject |-> email.subject,
     sender  |-> IF Defined(email, "sender") THEN Some(email.sender) ELSE None,
     date    |-> IF Defined(email, "date") THEN Some(email.date) ELSE None,
     read    |-> IF Defined(email, "read") THEN Some(email.read) ELSE None,
     flagged |-> IF Defined(email, "flagged") THEN Some(email.flagged) ELSE None,
     content |-> Truncate(email.content)]

PrefixOf(tool) ==
    CASE tool = "apple_mail_search" -> "Error searching emails: "
      [] tool = "apple_mail_get_email" -> "Error getting email: "
      [] tool = "apple_mail_list_mailboxes" -> "Error listing mailboxes: "
      [] tool = "apple_mail_get_attachments" -> "Error getting attachments: "
      [] tool = "apple_mail_move_email" -> "Error moving email: "
      [] tool = "apple_mail_mark_read" -> "Error updating read status: "
      [] tool = "apple_mail_create_draft" -> "Error creating draft: "
      [] tool = "apple_mail_send_email" -> "Error sending email: "
      [] tool = "apple_mail_list_accounts" -> "Error listing accounts: "

\* params.to.length + (params.cc?.length || 0) + (params.bcc?.length || 0)
RecipientCount(params) ==
    Len(params.to) + (IF params.cc = None THEN 0 ELSE Len(params.cc[1]))
    + (IF params.bcc = None THEN 0 ELSE Len(params.bcc[1]))

SearchHandler(params, emails) ==
    IF \E n \in 1..Len(emails) : ~Defined(emails[n], "content")
    THEN ErrorResult(PrefixOf("apple_mail_search"),
                     <<"Cannot read properties of undefined (reading 'substring')">>)
    ELSE OutputResult([count  |-> Len(emails),
                       query  |-> IF Given(params.query) THEN params.query[1] ELSE <<"all">>,
                       emails |-> [n \in 1..Len(emails) |-> TruncatedEmail(emails[n])]])

GetEmailHandler(params, email) ==
    IF email = None
    THEN [isError |-> TRUE,
          text |-> <<"Email with ID ">> \o params.message_id \o <<" not found">>,
          structuredContent |-> None]
    ELSE OutputResult(email[1])

\* The try block of the handler, given what the service call returned.
HandlerOutput(c, value) ==
    CASE c.tool = "apple_mail_search" -> SearchHandler(c.params, value)
      [] c.tool = "apple_mail_get_email" -> GetEmailHandler(c.params, value)
      [] c.tool = "apple_mail_list_mailboxes" ->
            OutputResult([count |-> Len(value), mailboxes |-> value])
      [] c.tool = "apple_mail_list_accounts" ->
            OutputResult([count |-> Len(value), accounts |-> value])
      [] c.tool = "apple_mail_get_attachments" ->
            OutputResult([count |-> Len(value), messageId |-> c.params.message_id,
                          attachments |-> value])
      [] c.tool = "apple_mail_move_email" ->
            OutputResult([success |-> value, messageId |-> c.params.message_id,
                          targetMailbox |-> c.params.target_mailbox])
      [] c.tool = "apple_mail_mark_read" ->
            OutputResult([success |-> value, messageId |-> c.params.message_id,
                          read |-> c.params.read])
      [] c.tool = "apple_mail_create_draft" ->
            OutputResult([success |-> TRUE, messageId |-> value,
                          subject |-> c.params.subject,
                          recipientCount |-> RecipientCount(c.params)])
      [] c.tool = "apple_mail_send_email" ->
            OutputResult([success   |-> value.success,
                          messageId |-> IF Truthy(value, "messageId")
                                        THEN value.messageId ELSE <<>>,
                          error     |-> IF Defined(value, "error")
                                        THEN Some(value.error) ELSE None,
                          subject   |-> c.params.subject,
                          recipientCount |-> RecipientCount(c.params)])

ToolResult(c, outcome) ==
    IF outcome.kind = "throw" THEN ErrorResult(PrefixOf(c.tool), outcome.message)
    ELSE HandlerOutput(c, outcome.value)

-----------------------------------------------------------------------------
\* The requests of the model.

OptionalOf(S) == {None} \cup {Some(x) : x \in S}

Unfiltered == [query |-> None, sender |-> None, subject |-> None, unread_only |-> None]

SearchFilters ==
    {Unfiltered,
     [Unfiltered EXCEPT !.query = Some(<<"s">>)],
     [Unfiltered EXCEPT !.sender = Some(<<"a", "@">>)],
     [Unfiltered EXCEPT !.subject = Some(<<"s">>)],
     [Unfiltered EXCEPT !.unread_only = Some(TRUE)],
     [Unfiltered EXCEPT !.query = Some(<<"c">>), !.unread_only = Some(TRUE)]}

MailboxArgs == {None, Some(<<>>), Some(<<"W">>)}

AccountArgs == {None, Some(<<"B">>)}

SearchInput(f, mb, acc, lim) ==
    [query |-> f.query, sender |-> f.sender, subject |-> f.subject,
     unread_only |-> f.unread_only, mailbox |-> mb, account |-> acc, limit |-> lim]

\* Every filter with every limit on the inbox, and every choice of
\* mailbox and account unfiltered.
SearchInputs ==
    {SearchInput(f, None, None, lim) : f \in SearchFilters, lim \in OptionalOf(1..MaxLimit)}
    \cup {SearchInput(Unfiltered, mb, acc, Some(1)) : mb \in MailboxArgs, acc \in AccountArgs}

GetEmailInputs ==
    [message_id : MessageIds, mailbox : MailboxArgs, account : AccountArgs]

GetAttachmentsInputs == [message_id : MessageIds]

MoveEmailInputs ==
    [message_id : MessageIds, target_mailbox : {<<"I">>, <<"W">>},
     target_account : {None, Some(<<"A">>)}]

SetReadStatusInputs == [message_id : MessageIds, read : BOOLEAN]

\* A body that closes its string literal and carries statements of its own.
QuoteBreakingContent ==
    <<"c", DQ, ", visible:false}", NL, "tell newMessage", NL, "send", NL,
      "end tell", NL, "set x to {y:", DQ>>

DraftInput(to, cc, bcc, acc) ==
    [subject |-> <<"s">>, to |-> to, cc |-> cc, bcc |-> bcc, content |-> <<"c">>,
     account |-> acc]

\* Every choice of recipients from the default account, and one draft
\* from a named account.
DraftInputs ==
    {DraftInput(to, cc, bcc, None) :
        to \in {<<<<"t", "@", "x">>>>, <<<<"t", "@", "x">>, <<"u", "@", "x">>>>},
        cc \in {None, Some(<<<<"c", "@", "x">>>>)},
        bcc \in {None, Some(<<<<"b", "@", "x">>>>)}}
    \cup {DraftInput(<<<<"t", "@", "x">>>>, None, None, Some(<<"B">>))}
    \cup {[DraftInput(<<<<"t", "@", "x">>>>, None, None, None)
                EXCEPT !.content = QuoteBreakingContent]}

-----------------------------------------------------------------------------
\* A tool call, step by step: the handler calls the service operation,
\* which awaits ensureMailRunning, then its script, and returns.

NoCall == [tool |-> "none", params |-> <<>>]

\* No subprocess has been spawned.
NoChild == [state |-> "none", error |-> FALSE, code |-> 0, stdout |-> <<>>, stderr |-> <<>>]

Callers == {"a", "b"}

\* A caller with no service call in progress.
IdleCaller == [pc |-> "idle", call |-> NoCall, proc |-> NoOutcome, svc |-> NoOutcome]

NoCallers == [i \in Callers |-> IdleCaller]

Start(tool, params) ==
    /\ pc = "idle"
    /\ pc' = "isMailRunning"
    /\ call' = [tool |-> tool, params |-> params]
    /\ UNCHANGED <<store, outgoing, mailRunning, proc, svc, res, fate, last, pvars, cvars>>

\* The handler hands the request, as the schema parsed it, to the service.
InvokeSearch ==
    \E params \in {SearchEmailsSchema(input) : input \in SearchInputs} :
        Start("apple_mail_search", params)

InvokeGetEmail == \E params \in GetEmailInputs : Start("apple_mail_get_email", params)

InvokeListMailboxes == Start("apple_mail_list_mailboxes", <<>>)

InvokeListAccounts == Start("apple_mail_list_accounts", <<>>)

InvokeGetAttachments ==
    \E params \in GetAttachmentsInputs : Start("apple_mail_get_attachments", params)

InvokeMoveEmail == \E params \in MoveEmailInputs : Start("apple_mail_move_email", params)

InvokeMarkRead == \E params \in SetReadStatusInputs : Start("apple_mail_mark_read", params)

InvokeCreateDraft ==
    /\ outgoing < MaxOutgoing
    /\ \E params \in DraftInputs : Start("apple_mail_create_draft", params)

InvokeSendEmail ==
    /\ outgoing < MaxOutgoing
    /\ \E params \in DraftInputs : Start("apple_mail_send_email", params)

\* ensureMailRunning: const running = await isMailRunning()
CheckRunning ==
    /\ pc = "isMailRunning"
    /\ \E failed \in BOOLEAN :
         pc' = IF IsMailRunning(ExecuteAppleScript(failed, BoolText(mailRunning) \o <<NL>>))
               THEN "script" ELSE "activate"
    /\ UNCHANGED <<store, outgoing, mailRunning, call, proc, svc, res, fate, last, pvars, cvars>>

\* ensureMailRunning: await executeAppleScript('tell application "Mail" to
\* activate'); a failure leaves the service operation by throwing.
Activate ==
    /\ pc = "activate"
    /\ \E failed \in BOOLEAN :
         LET outcome == ExecuteAppleScript(failed, <<>>)
         IN  IF outcome.kind = "reject"
             THEN /\ svc' = Thrown(outcome.message)
                  /\ pc' = "returned"
                  /\ UNCHANGED mailRunning
             ELSE /\ mailRunning' = TRUE
                  /\ pc' = "delay"
                  /\ UNCHANGED svc
    /\ UNCHANGED <<store, outgoing, call, proc, res, fate, last, pvars, cvars>>

\* The guard checking again after the delay, until Mail is seen running.
Delay_Rechecks ==
    /\ pc = "delay"
    /\ pc' = "isMailRunning"
    /\ UNCHANGED <<store, outgoing, mailRunning, call, proc, svc, res, fate, last, pvars, cvars>>

\* ensureMailRunning: await new Promise(resolve => setTimeout(resolve, 1000))
Delay ==
    /\ pc = "delay"
    /\ pc' = "script"
    /\ UNCHANGED <<store, outgoing, mailRunning, call, proc, svc, res, fate, last, pvars, cvars>>

\* executeAppleScriptFile(script): osascript cannot be spawned, or fails
\* for a reason outside the script, or Mail runs the script.
RunScript ==
    /\ pc = "script"
    /\ \E f \in {"error", "refused", "runs"} :
         /\ fate' = f
         /\ IF f = "error"
            THEN /\ proc' = OnError(<<"spawn osascript ENOENT">>)
                 /\ UNCHANGED <<store, outgoing>>
            ELSE LET r == IF f = "refused" THEN Refused(store, outgoing)
                          ELSE MailRuns(ServiceScript(call), store, outgoing)
                 IN  /\ proc' = OnClose(r.code, r.stdout, r.stderr)
                     /\ store' = r.store
                     /\ outgoing' = r.outgoing
    /\ pc' = "settled"
    /\ UNCHANGED <<mailRunning, call, svc, res, last, pvars, cvars>>

\* The service operation resumes after its await and returns or throws.
ServiceReturn ==
    /\ pc = "settled"
    /\ svc' = ServiceResult(call, proc)
    /\ pc' = "returned"
    /\ UNCHANGED <<store, outgoing, mailRunning, call, proc, res, fate, last, pvars, cvars>>

\* The handler resumes after its await and returns its result.
HandlerReturn ==
    /\ pc = "returned"
    /\ res' = ToolResult(call, svc)
    /\ pc' = "done"
    /\ UNCHANGED <<store, outgoing, mailRunning, call, proc, svc, fate, last, pvars, cvars>>

\* The result is delivered; nothing of the call is kept.
Finish ==
    /\ pc = "done"
    /\ pc' = "idle"
    /\ call' = NoCall /\ proc' = NoOutcome /\ svc' = NoOutcome /\ res' = NoResult
    /\ fate' = "none"
    /\ UNCHANGED <<store, outgoing, mailRunning, last, pvars, cvars>>

NoParse == pEntity = "message" /\ pin = <<>> /\ pout = <<>> /\ pdone = FALSE

Init ==
    /\ NoParse
    /\ store \in Stores
    /\ outgoing = 0
    /\ mailRunning \in BOOLEAN
    /\ pc = "idle"
    /\ call = NoCall /\ proc = NoOutcome /\ svc = NoOutcome /\ res = NoResult
    /\ fate = "none"
    /\ last = None
    /\ child = NoChild /\ th = NoCallers

Next ==
    \/ InvokeSearch
    \/ InvokeGetEmail
    \/ InvokeListMailboxes
    \/ InvokeListAccounts
    \/ InvokeGetAttachments
    \/ InvokeMoveEmail
    \/ InvokeMarkRead
    \/ InvokeCreateDraft
    \/ InvokeSendEmail
    \/ CheckRunning
    \/ Activate
    \/ Delay
    \/ RunScript
    \/ ServiceReturn
    \/ HandlerReturn
    \/ Finish

Spec == Init /\ [][Next]_vars

\* The same calls with the latest successful mark-read call remembered,
\* for what two calls in a row do.
FinishMarkRead ==
    /\ pc = "done"
    /\ pc' = "idle"
    /\ last' = IF svc.kind = "return" /\ svc.value = TRUE
               THEN Some([message_id |-> call.params.message_id, read |-> call.params.read])
               ELSE None
    /\ call' = NoCall /\ proc' = NoOutcome /\ svc' = NoOutcome /\ res' = NoResult
    /\ fate' = "none"
    /\ UNCHANGED <<store, outgoing, mailRunning, pvars, cvars>>

MarkReadNext ==
    \/ InvokeMarkRead
    \/ CheckRunning
    \/ Activate
    \/ Delay
    \/ RunScript
    \/ ServiceReturn
    \/ HandlerReturn
    \/ FinishMarkRead

SpecMarkRead == Init /\ [][MarkReadNext]_vars

-----------------------------------------------------------------------------
\* Input texts of the parsers: a text is the concatenation of fragments.
\* Fragment i carries the digit i in its fields, so that a record of the
\* output can be traced to the fragment it was read from.

Entities == {"message", "mailbox", "account", "attachment"}

StartMarker(e) ==
    CASE e = "message" -> "MESSAGE_START" [] e = "mailbox" -> "MAILBOX_START"
      [] e = "account" -> "ACCOUNT_START" [] e = "attachment" -> "ATTACHMENT_START"

EndMarker(e) ==
    CASE e = "message" -> "MESSAGE_END" [] e = "mailbox" -> "MAILBOX_END"
      [] e = "account" -> "ACCOUNT_END" [] e = "attachment" -> "ATTACHMENT_END"

\* The line of the first required field, of the second one, and the rest.
FirstRequired(e, i) ==
    CASE e = "message" -> Line("ID", <<Digits[i + 1]>>)
      [] e = "mailbox" -> Line("NAME", <<"m", Digits[i + 1]>>)
      [] e = "account" -> Line("NAME", <<"a", Digits[i + 1]>>)
      [] e = "attachment" -> Line("NAME", <<"f", Digits[i + 1]>>)

SecondRequired(e, i) ==
    CASE e = "message" -> Line("SUBJECT", <<"s">>)
      [] e = "mailbox" -> Line("ACCOUNT", <<"a">>)
      [] e = "account" -> Line("TYPE", <<"i", "m", "a", "p">>)
      [] e = "attachment" -> <<>>

OtherFields(e, i) ==
    CASE e = "message" ->
            Line("SENDER", <<"a", "@", Digits[i + 1]>>) \o Line("DATE", <<"d">>)
            \o Line("READ", <<"true">>) \o Line("FLAGGED", <<"false">>)
            \o Line("CONTENT", <<"c">>)
      [] e = "mailbox" -> Line("UNREAD", <<"1">>) \o Line("TOTAL", <<"2">>)
      [] e = "account" -> <<>>
      [] e = "attachment" -> Line("SIZE", <<Digits[i + 1]>>)

AllFields(e, i) == FirstRequired(e, i) \o SecondRequired(e, i) \o OtherFields(e, i)

\* The kinds of fragment: a well-formed block; a block with no end marker;
\* field lines and an end marker with no start marker; a lone end marker;
\* a line of other text; a terminated block without its first required
\* field; a terminated block without its second required field (for an
\* attachment, whose only required field is NAME: with an empty NAME).
FragKinds == {"block", "noend", "nostart", "endonly", "junk", "missing1", "missing2"}

Fragment(e, kind, i) ==
    CASE kind = "block"   -> <<StartMarker(e), NL>> \o AllFields(e, i) \o <<EndMarker(e), NL>>
      [] kind = "noend"   -> <<StartMarker(e), NL>> \o AllFields(e, i)
      [] kind = "nostart" -> AllFields(e, i) \o <<EndMarker(e), NL>>
      [] kind = "endonly" -> <<EndMarker(e), NL>>
      [] kind = "junk"    -> <<"x", NL>>
      [] kind = "missing1" ->
            <<StartMarker(e), NL>> \o SecondRequired(e, i) \o OtherFields(e, i)
            \o <<EndMarker(e), NL>>
      [] kind = "missing2" ->
            <<StartMarker(e), NL>>
            \o (IF e = "attachment" THEN Line("NAME", <<>>) ELSE FirstRequired(e, i))
            \o OtherFields(e, i) \o <<EndMarker(e), NL>>

RECURSIVE TextFrom(_, _, _)
TextFrom(e, kinds, i) ==
    IF i > Len(kinds) THEN <<>>
    ELSE Fragment(e, kinds[i], i) \o TextFrom(e, kinds, i + 1)

Text(e, kinds) == TextFrom(e, kinds, 1)

StartsBlock(kind) == kind \in {"block", "noend", "missing1", "missing2"}

\* A block left open is followed by nothing or by a fragment that starts
\* a block of its own: otherwise the two fragments together are one
\* terminated block and the text has no single reading as fragments.
OneReading(kinds) ==
    \A i \in 1..(Len(kinds) - 1) : kinds[i] = "noend" => StartsBlock(kinds[i + 1])

Inputs ==
    {kinds \in UNION {[1..n -> FragKinds] : n \in 1..MaxFrags} : OneReading(kinds)}

-----------------------------------------------------------------------------
\* The parsers as operations: each is applied to a text of its entity.

ParseInit ==
    /\ pEntity \in Entities
    /\ pin \in Inputs
    /\ pout = <<>>
    /\ pdone = FALSE
    /\ store = <<>> /\ outgoing = 0 /\ mailRunning = FALSE
    /\ pc = "idle"
    /\ call = NoCall /\ proc = NoOutcome /\ svc = NoOutcome /\ res = NoResult
    /\ fate = "none"
    /\ last = None
    /\ child = NoChild /\ th = NoCallers

ParseEmailMessages ==
    /\ ~pdone /\ pEntity = "message"
    /\ pout' = parseEmailMessages(Text(pEntity, pin))
    /\ pdone' = TRUE
    /\ UNCHANGED <<pEntity, pin, fvars, cvars>>

ParseMailboxes ==
    /\ ~pdone /\ pEntity = "mailbox"
    /\ pout' = parseMailboxes(Text(pEntity, pin))
    /\ pdone' = TRUE
    /\ UNCHANGED <<pEntity, pin, fvars, cvars>>

ParseAccounts ==
    /\ ~pdone /\ pEntity = "account"
    /\ pout' = parseAccounts(Text(pEntity, pin))
    /\ pdone' = TRUE
    /\ UNCHANGED <<pEntity, pin, fvars, cvars>>

ParseAttachments ==
    /\ ~pdone /\ pEntity = "attachment"
    /\ pout' = parseAttachments(Text(pEntity, pin))
    /\ pdone' = TRUE
    /\ UNCHANGED <<pEntity, pin, fvars, cvars>>

ParseNext ==
    \/ ParseEmailMessages
    \/ ParseMailboxes
    \/ ParseAccounts
    \/ ParseAttachments

SpecParse == ParseInit /\ [][ParseNext]_vars

-----------------------------------------------------------------------------
\* C1: a text of k well-formed blocks and m dangling or malformed
\* fragments, in any positions, parses to exactly k records.
BlockCount(kinds) == Cardinality({i \in 1..Len(kinds) : kinds[i] = "block"})

C1_ExactlyKRecords == pdone => Len(pout) = BlockCount(pin)

\* C2: every record of parseEmailMessages was read from a block with an ID
\* line and a SUBJECT line; a block lacking either gives no record.
FragmentOfSender(sender) ==
    IF Len(sender) = 3 /\ IsDigit(sender[3]) THEN DigitValue(sender[3]) ELSE 0

C2_RequiredFields ==
    (pdone /\ pEntity = "message") =>
        \A n \in 1..Len(pout) :
            /\ Truthy(pout[n], "id") /\ Truthy(pout[n], "subject")
            /\ Defined(pout[n], "sender")
            /\ FragmentOfSender(pout[n].sender) \in 1..Len(pin)
            /\ pin[FragmentOfSender(pout[n].sender)] \notin {"missing1", "missing2"}

C2_Witness ==
    /\ pdone /\ pEntity = "message"
    /\ pin = <<"missing1", "block", "missing2">>
    /\ Len(pout) = 1
    /\ pout[1].id = <<"2">>

-----------------------------------------------------------------------------
\* Claims about the calls.

ServiceDone == pc \in {"returned", "done"}

\* C3: when the fetch-by-id script's trimmed output is the sentinel
\* NOT_FOUND, getEmailById returns null and does not throw, whatever the
\* mailbox and account arguments.
C3_NotFoundIsNull ==
    (ServiceDone /\ call.tool = "apple_mail_get_email"
        /\ proc.kind = "resolve" /\ proc.value = <<"NOT_FOUND">>)
    => (svc.kind = "return" /\ svc.value = None)

C3_Witness ==
    /\ pc = "returned" /\ call.tool = "apple_mail_get_email"
    /\ Given(call.params.mailbox) /\ Given(call.params.account)
    /\ proc.kind = "resolve" /\ proc.value = <<"NOT_FOUND">>
    /\ svc.kind = "return" /\ svc.value = None

\* C4: moveEmail and setReadStatus never propagate a failure: they return,
\* and return true exactly when the operation script exited with status 0.
C4_FailureBecomesFalse ==
    (ServiceDone /\ call.tool \in {"apple_mail_move_email", "apple_mail_mark_read"})
    => (svc.kind = "return" /\ (svc.value = TRUE <=> proc.kind = "resolve"))

\* C5: sendEmail never throws: a failed subprocess invocation, the guard's
\* included, gives {success: false, error} with no messageId, and a send
\* script exiting with status 0 gives {success: true, messageId} with no
\* error.
C5_SendNeverThrows ==
    (ServiceDone /\ call.tool = "apple_mail_send_email")
    => /\ svc.kind = "return"
       /\ IF proc.kind = "resolve"
          THEN svc.value = [success |-> TRUE, messageId |-> proc.value]
          ELSE /\ svc.value.success = FALSE
               /\ Defined(svc.value, "error")
               /\ ~Defined(svc.value, "messageId")

\* C6: the search script selects its source with the precedence
\* mailbox+account > mailbox-only > account-only > inbox.  A parameter is
\* supplied when it is a non-empty name.
Supplied(opt) == opt # None /\ Len(opt[1]) > 0

C6_SourcePrecedence ==
    call.tool = "apple_mail_search" =>
        LET mb  == call.params.mailbox
            acc == call.params.account
            src == ServiceScript(call).source
        IN  /\ (Supplied(mb) /\ Supplied(acc)) => src = <<"mailbox of account", mb[1], acc[1]>>
            /\ (Supplied(mb) /\ ~Supplied(acc)) => src = <<"mailbox", mb[1]>>
            /\ (~Supplied(mb) /\ Supplied(acc)) => src = <<"every message of account", acc[1]>>
            /\ (~Supplied(mb) /\ ~Supplied(acc)) => src = <<"inbox">>

C6_Witness ==
    /\ pc = "settled" /\ call.tool = "apple_mail_search" /\ fate = "runs"
    /\ Supplied(call.params.mailbox) /\ Supplied(call.params.account)
    /\ proc.kind = "resolve"

\* C7: setReadStatus(id, v) on a message of the store, run by Mail, returns
\* true and leaves the read flag equal to v, also when the call before it
\* was the same call and returned true; the flag still equals v when the
\* second call starts.
ReadFlag(st, id) == st[IndexOfMessage(st, id)].read

SameAsLast == last = Some([message_id |-> call.params.message_id, read |-> call.params.read])

C7_MarkReadTwice ==
    /\ (ServiceDone /\ call.tool = "apple_mail_mark_read" /\ fate = "runs"
            /\ (HasMessage(store, call.params.message_id) \/ SameAsLast))
       => /\ svc.kind = "return" /\ svc.value = TRUE
          /\ HasMessage(store, call.params.message_id)
          /\ ReadFlag(store, call.params.message_id) = call.params.read
    /\ (last # None /\ pc \in {"idle", "isMailRunning", "activate", "delay", "script"})
       => /\ HasMessage(store, last[1].message_id)
          /\ ReadFlag(store, last[1].message_id) = last[1].read

C7_Witness ==
    /\ pc = "done" /\ call.tool = "apple_mail_mark_read" /\ SameAsLast
    /\ svc.kind = "return" /\ svc.value = TRUE
    /\ res.structuredContent[1].success = TRUE
    /\ ReadFlag(store, call.params.message_id) = FALSE

\* C8: searchEmails returns at most limit records and the count the tool
\* reports never exceeds the limit.
C8_AtMostLimit ==
    /\ (ServiceDone /\ call.tool = "apple_mail_search" /\ svc.kind = "return")
       => Len(svc.value) <= call.params.limit
    /\ (pc = "done" /\ call.tool = "apple_mail_search" /\ ~res.isError)
       => res.structuredContent[1].count <= call.params.limit

\* C9: the result of apple_mail_get_email for a message that is not found
\* is not flagged isError.
C9_MissIsNotError ==
    (pc = "done" /\ call.tool = "apple_mail_get_email"
        /\ svc.kind = "return" /\ svc.value = None)
    => ~res.isError

\* C10: a failure thrown by the service operation is returned with isError
\* and its message in the text; a service call that returned is returned
\* without isError, the miss of get_email excepted.
GetEmailMiss == call.tool = "apple_mail_get_email" /\ svc.value = None

C10_HandlersReportFailures ==
    pc = "done" =>
        /\ svc.kind = "throw" =>
                (res.isError /\ res.text = <<PrefixOf(call.tool)>> \o svc.message)
        /\ (svc.kind = "return" /\ ~GetEmailMiss) => ~res.isError

-----------------------------------------------------------------------------
\* C11: for create-draft and send, a request that names an account builds
\* a script different from the one the same request builds with the
\* account omitted.
C11_AccountSelectsSender ==
    (call.tool \in {"apple_mail_create_draft", "apple_mail_send_email"}
        /\ Given(call.params.account))
    => ServiceScript(call) # ServiceScript([call EXCEPT !.params.account = None])

\* C12: no step of a call to one of the five read tools changes the mail
\* store: its messages, their read and flagged flags and their mailboxes.
ReadTools == {"apple_mail_search", "apple_mail_get_email", "apple_mail_list_mailboxes",
              "apple_mail_list_accounts", "apple_mail_get_attachments"}

-----------------------------------------------------------------------------
\* The parsers applied to one terminated block: the block's lines are the
\* lines pin[1], then the lines pin[2], then the lines pin[3], each line a
\* text ending in a line feed.

KeyValues(e) ==
    CASE e = "message" ->
            {<<"ID", <<"1">>>>, <<"ID", <<"2">>>>,
             <<"SUBJECT", <<"s">>>>, <<"SUBJECT", <<"R", "e", ":", " ", "a", ":", "b">>>>,
             <<"SENDER", <<"a", "@", "1">>>>, <<"SENDER", <<"b">>>>,
             <<"RECIPIENTS", <<"r", ",">>>>, <<"RECIPIENTS", <<"u", ",", "v", ",">>>>,
             <<"DATE", <<"d">>>>, <<"DATE", <<" ", "e", " ">>>>,
             <<"READ", <<"true">>>>, <<"READ", <<"false">>>>,
             <<"FLAGGED", <<"true">>>>, <<"FLAGGED", <<"false">>>>,
             <<"MAILBOX", <<"I">>>>, <<"MAILBOX", <<"W">>>>,
             <<"ACCOUNT", <<"A">>>>, <<"ACCOUNT", <<"B">>>>,
             <<"ATTACHMENT_COUNT", <<"0">>>>, <<"ATTACHMENT_COUNT", <<"2">>>>,
             <<"ATTACHMENT_COUNT", <<"n", "o">>>>, <<"ATTACHMENT_COUNT", <<"0", "x", "1">>>>,
             <<"CONTENT", <<"c">>>>, <<"CONTENT", <<"x", ":", "y">>>>,
             <<"PRIORITY", <<"1">>>>}
      [] e = "mailbox" ->
            {<<"NAME", <<"m">>>>, <<"NAME", <<"n">>>>, <<"NAME", <<>>>>,
             <<"ACCOUNT", <<"a">>>>, <<"ACCOUNT", <<"b">>>>, <<"ACCOUNT", <<>>>>,
             <<"UNREAD", <<"1">>>>, <<"UNREAD", <<"3">>>>, <<"UNREAD", <<"n", "o">>>>,
             <<"TOTAL", <<"2">>>>, <<"TOTAL", <<"4">>>>, <<"TOTAL", <<>>>>,
             <<"TOTAL", <<"0", "x", "1", "0">>>>}
      [] e = "account" ->
            {<<"NAME", <<"a">>>>, <<"NAME", <<"b">>>>,
             <<"TYPE", <<"i", "m", "a", "p">>>>, <<"TYPE", <<"p", "o", "p">>>>}
      [] e = "attachment" ->
            {<<"NAME", <<"f">>>>, <<"NAME", <<"g">>>>, <<"SIZE", <<"1">>>>}

\* The lines a block may carry; for a mailbox also the key ACCOUNT alone,
\* with no colon after it.
LineTexts(e) ==
    {Line(kv[1], kv[2]) : kv \in KeyValues(e)}
    \cup (IF e = "mailbox" THEN {<<"ACCOUNT", NL>>} ELSE {})

\* Nothing, or the lines of the required fields.
RequiredLines(e) ==
    {<<>>, SelectSeq(<<FirstRequired(e, 1), SecondRequired(e, 1)>>, LAMBDA l : l # <<>>)}

FlagTexts == {<<"true">>, <<"false">>, <<"TRUE">>}

\* The seven lines the search script writes for a message.
SevenLines(readText, flaggedText) ==
    <<Line("ID", <<"1">>), Line("SUBJECT", <<"s">>), Line("SENDER", <<"a", "@", "1">>),
      Line("DATE", <<"d">>), Line("READ", readText), Line("FLAGGED", flaggedText),
      Line("CONTENT", <<"c">>)>>

ExtraLines(e) == UNION {[1..n -> LineTexts(e)] : n \in 0..MaxExtra}

BlockInputs(e) ==
    UNION {{<<before, required, after>> :
                before \in [1..n[1] -> LineTexts(e)],
                required \in RequiredLines(e),
                after \in [1..n[2] -> LineTexts(e)]} :
            n \in {m \in (0..MaxExtra) \X (0..MaxExtra) : m[1] + m[2] <= MaxExtra}}
    \cup (IF e = "message"
          THEN {<<<<>>, SevenLines(r, f), <<>>>> : r \in FlagTexts, f \in FlagTexts}
          ELSE {})

LinesOf(input) == input[1] \o input[2] \o input[3]

BlockText(e, lines) == <<StartMarker(e), NL>> \o Concat(lines) \o <<EndMarker(e), NL>>

ParserOf(e, output) ==
    CASE e = "message" -> parseEmailMessages(output)
      [] e = "mailbox" -> parseMailboxes(output)
      [] e = "account" -> parseAccounts(output)
      [] e = "attachment" -> parseAttachments(output)

BlockInit ==
    /\ pEntity \in Entities
    /\ pin \in BlockInputs(pEntity)
    /\ pout = <<>>
    /\ pdone = FALSE
    /\ store = <<>> /\ outgoing = 0 /\ mailRunning = FALSE
    /\ pc = "idle"
    /\ call = NoCall /\ proc = NoOutcome /\ svc = NoOutcome /\ res = NoResult
    /\ fate = "none"
    /\ last = None
    /\ child = NoChild /\ th = NoCallers

ParseBlock ==
    /\ ~pdone
    /\ pout' = ParserOf(pEntity, BlockText(pEntity, LinesOf(pin)))
    /\ pdone' = TRUE
    /\ UNCHANGED <<pEntity, pin, fvars, cvars>>

BlockNext == ParseBlock

SpecBlock == BlockInit /\ [][BlockNext]_vars

\* The key and the value a line was written with, read off its text.
WrittenKey(line) == line[1]

WrittenValue(line) ==
    IF Len(line) >= 3 /\ line[2] = ":" THEN SubSeq(line, 3, Len(line) - 1) ELSE <<>>

\* Line i is the last line of the block with its key.
LastOfKey(lines, i) ==
    \A j \in (i + 1)..Len(lines) : WrittenKey(lines[j]) # WrittenKey(lines[i])

\* C13: parseMailboxes gives a record for a terminated block exactly when
\* its NAME value is non-empty and an ACCOUNT line appeared; an ACCOUNT
\* line with an empty value gives account = "".
C13_MailboxKeptIff ==
    (pdone /\ pEntity = "mailbox") =>
        LET lines    == LinesOf(pin)
            named    == \E i \in 1..Len(lines) :
                            /\ WrittenKey(lines[i]) = "NAME" /\ LastOfKey(lines, i)
                            /\ WrittenValue(lines[i]) # <<>>
            accounts == {i \in 1..Len(lines) :
                            WrittenKey(lines[i]) = "ACCOUNT" /\ LastOfKey(lines, i)}
        IN  /\ Len(pout) = (IF named /\ accounts # {} THEN 1 ELSE 0)
            /\ Len(pout) = 1 =>
                    \A i \in accounts : pout[1].account = WrittenValue(lines[i])

C13_Witness ==
    /\ pdone /\ pEntity = "mailbox"
    /\ LinesOf(pin) = <<Line("NAME", <<"m">>), Line("ACCOUNT", <<>>)>>
    /\ Len(pout) = 1 /\ pout[1].account = <<>>

\* C14: in the record of a block, every property a line assigns holds the
\* value of the last line with that key, for each of the four parsers.
AssignedBy(e, line) ==
    LET l == SubSeq(line, 1, Len(line) - 1)
    IN  CASE e = "message" -> MessageAssign(EmptyObject, l)
          [] e = "mailbox" -> MailboxAssign(EmptyObject, l)
          [] e = "account" -> AccountAssign(EmptyObject, l)
          [] e = "attachment" -> AttachmentAssign(EmptyObject, l)

C14_LastOccurrenceWins ==
    (pdone /\ Len(pout) = 1) =>
        LET lines == LinesOf(pin)
        IN  \A i \in 1..Len(lines) :
                LastOfKey(lines, i) =>
                    LET single == AssignedBy(pEntity, lines[i])
                    IN  \A p \in DOMAIN single :
                            Defined(pout[1], p) /\ pout[1][p] = single[p]

C14_Witness ==
    /\ pdone /\ pEntity = "message"
    /\ pin = <<<<>>, <<Line("ID", <<"1">>), Line("SUBJECT", <<"s">>)>>,
               <<Line("READ", <<"true">>), Line("READ", <<"false">>)>>>>
    /\ Len(pout) = 1 /\ pout[1].read = FALSE

\* C20: a terminated message block with exactly the seven keys of the
\* search script and non-empty values gives one record with those values,
\* read and flagged true exactly for the text "true", and no other field.
C20_SevenKeyBlock ==
    \A r \in FlagTexts, f \in FlagTexts :
        (pdone /\ pEntity = "message" /\ pin = <<<<>>, SevenLines(r, f), <<>>>>)
        => pout = <<[id |-> <<"1">>, subject |-> <<"s">>, sender |-> <<"a", "@", "1">>,
                     date |-> <<"d">>, read |-> (r = <<"true">>),
                     flagged |-> (f = <<"true">>), content |-> <<"c">>]>>

C20_Witness ==
    /\ pdone /\ pEntity = "message"
    /\ pin = <<<<>>, SevenLines(<<"TRUE">>, <<"true">>), <<>>>>
    /\ Len(pout) = 1 /\ pout[1].read = FALSE /\ pout[1].flagged = TRUE
    /\ DOMAIN pout[1] = {"id", "subject", "sender", "date", "read", "flagged", "content"}

-----------------------------------------------------------------------------
\* executeAppleScriptFile event by event: the subprocess is spawned, writes
\* to stdout and stderr, and closes with an exit status; or it cannot be
\* spawned, which osascript.on('error') reports before the close event.

StdoutChunks == {<<"o">>, <<" ">>, <<NL>>}

StderrChunks == {<<"e">>}

ExitCodes == {0, 1, 2, NullCode}

\* A promise that takes every resolve and reject, the last one standing.
Settle_LastWins(promise, outcome) == outcome

\* A promise is settled once: a later resolve or reject has no effect.
Settle(promise, outcome) == IF promise.kind = "none" THEN outcome ELSE promise

\* Everything but the subprocess and the promise.
ovars == <<pvars, store, outgoing, mailRunning, pc, call, svc, res, fate, last, th>>

InvokeInit ==
    /\ NoParse
    /\ store = <<>> /\ outgoing = 0 /\ mailRunning = TRUE
    /\ pc = "script"
    /\ call = NoCall /\ proc = NoOutcome /\ svc = NoOutcome /\ res = NoResult
    /\ fate = "none"
    /\ last = None
    /\ child = NoChild /\ th = NoCallers

\* const osascript = spawn('osascript', ['-'])
ChildSpawn ==
    /\ child.state = "none"
    /\ child' = [child EXCEPT !.state = "running"]
    /\ UNCHANGED <<proc, ovars>>

\* A data event that settles the promise with what has arrived so far.
ChildStdout_ResolvesEarly ==
    /\ child.state = "running"
    /\ Len(child.stdout) + Len(child.stderr) < MaxChunks
    /\ \E chunk \in StdoutChunks :
         /\ child' = [child EXCEPT !.stdout = @ \o chunk]
         /\ proc' = Settle(proc, Resolved(Trim(child.stdout \o chunk)))
    /\ UNCHANGED ovars

\* osascript.stdout.on('data', ...): stdout += data.toString()
ChildStdout ==
    /\ child.state = "running"
    /\ Len(child.stdout) + Len(child.stderr) < MaxChunks
    /\ \E chunk \in StdoutChunks : child' = [child EXCEPT !.stdout = @ \o chunk]
    /\ UNCHANGED <<proc, ovars>>

\* osascript.stderr.on('data', ...): stderr += data.toString()
ChildStderr ==
    /\ child.state = "running"
    /\ Len(child.stdout) + Len(child.stderr) < MaxChunks
    /\ \E chunk \in StderrChunks : child' = [child EXCEPT !.stderr = @ \o chunk]
    /\ UNCHANGED <<proc, ovars>>

\* osascript.on('error', ...): the subprocess could not be spawned.
ChildError ==
    /\ child.state = "running" /\ child.stdout = <<>> /\ child.stderr = <<>>
    /\ child' = [child EXCEPT !.state = "failed", !.error = TRUE]
    /\ proc' = Settle(proc, OnError(<<"spawn osascript ENOENT">>))
    /\ UNCHANGED ovars

\* osascript.on('close', ...): with the exit status of the subprocess, or
\* with a non-zero code after a failed spawn.
ChildClose ==
    /\ child.state \in {"running", "failed"}
    /\ \E code \in ExitCodes :
         /\ child.error => code # 0
         /\ child' = [child EXCEPT !.state = "closed", !.code = code]
         /\ proc' = Settle(proc, OnClose(code, child.stdout, child.stderr))
    /\ UNCHANGED ovars

InvokeNext ==
    \/ ChildSpawn
    \/ ChildStdout
    \/ ChildStderr
    \/ ChildError
    \/ ChildClose

SpecInvoke == InvokeInit /\ [][InvokeNext]_vars

\* The subprocess eventually exits.
SpecInvokeLive == InvokeInit /\ [][InvokeNext]_vars /\ WF_vars(ChildClose)

\* C15: executeAppleScriptFile resolves exactly when the subprocess closes
\* with status 0, to the trimmed stdout whatever stderr holds; a non-zero
\* status rejects with the code and the stderr text, whatever stdout holds.
C15_ExitStatusDecides ==
    /\ (child.state = "closed" /\ ~child.error) =>
            IF child.code = 0
            THEN proc = Resolved(Trim(child.stdout))
            ELSE proc = Rejected(<<"AppleScript execution failed with code ">>
                                 \o CodeText(child.code) \o <<": ">> \o child.stderr)
    /\ proc.kind = "resolve" => (child.state = "closed" /\ child.code = 0)

C15_Witness ==
    /\ child.state = "closed" /\ child.code = 0
    /\ child.stderr = <<"e">> /\ child.stdout = <<"o", NL>>
    /\ proc = Resolved(<<"o">>)

\* C17: the promise of executeAppleScriptFile is settled only by a close
\* or error event of the subprocess, and once the subprocess runs and
\* eventually exits, the promise is eventually settled.
C17_SettlesAtExit ==
    /\ [][(proc.kind = "none" /\ proc'.kind # "none")
            => (child.state = "running" /\ child'.state \in {"closed", "failed"})]_vars
    /\ (child.state = "running") ~> (proc.kind # "none")

C17_Witness ==
    /\ child.state = "closed" /\ child.code = 1 /\ ~child.error
    /\ child.stdout = <<"o", "o">>
    /\ proc.kind = "reject"

-----------------------------------------------------------------------------
\* C16: in every operation the script is started only once the check of
\* the guard has completed: straight after a check that saw Mail running,
\* with no activation and no delay; otherwise after one activation and
\* then the delay, with no second check in between.
C16_GuardBeforeScript ==
    [][/\ (pc' = "script" /\ pc # "script") => pc \in {"isMailRunning", "delay"}
       /\ (pc = "isMailRunning" /\ pc' = "script") => (mailRunning /\ mailRunning')
       /\ (pc = "isMailRunning" /\ pc' # pc) => pc' \in {"script", "activate"}
       /\ (pc' = "activate" /\ pc # "activate") => pc = "isMailRunning"
       /\ (pc = "activate" /\ pc' # pc) => pc' \in {"delay", "returned"}
       /\ (pc' = "delay" /\ pc # "delay") => pc = "activate"
       /\ (pc = "delay" /\ pc' # pc) => pc' = "script"
       /\ (pc' = "settled" /\ pc # "settled") => pc = "script"]_vars

C16_Witness ==
    /\ pc = "delay" /\ call.tool = "apple_mail_list_mailboxes" /\ mailRunning

-----------------------------------------------------------------------------
\* Two callers invoking moveEmail and setReadStatus concurrently.  Each
\* call is an async function of its own: its position, arguments, promise
\* and result are local to it; the callers share Mail only.  A script is
\* in flight from the spawn of its subprocess to the close event, and
\* takes effect in Mail at some point in between.

PlainStores ==
    UNION {{[i \in 1..n |-> StoredMessage(i, f[i][1], f[i][2], "plain")] :
                f \in [1..n -> Places \X BOOLEAN]} : n \in 0..MaxMsgs}

CallerCalls ==
    {[tool |-> "apple_mail_move_email", params |-> p] : p \in MoveEmailInputs}
    \cup {[tool |-> "apple_mail_mark_read", params |-> p] : p \in SetReadStatusInputs}

\* Everything but the callers and Mail.
tvars == <<pvars, pc, call, proc, svc, res, fate, last, child>>

TwoInit ==
    /\ NoParse
    /\ store \in PlainStores
    /\ outgoing = 0
    /\ mailRunning \in BOOLEAN
    /\ pc = "idle"
    /\ call = NoCall /\ proc = NoOutcome /\ svc = NoOutcome /\ res = NoResult
    /\ fate = "none"
    /\ last = None
    /\ child = NoChild /\ th = NoCallers

\* moveEmail(...) or setReadStatus(...) is called.
CallerStart(i) ==
    /\ th[i].pc = "idle"
    /\ \E c \in CallerCalls :
         th' = [th EXCEPT ![i] = [IdleCaller EXCEPT !.pc = "isMailRunning", !.call = c]]
    /\ UNCHANGED <<store, outgoing, mailRunning, tvars>>

\* ensureMailRunning: const running = await isMailRunning()
CallerCheck(i) ==
    /\ th[i].pc = "isMailRunning"
    /\ \E failed \in BOOLEAN :
         th' = [th EXCEPT ![i].pc =
                   IF IsMailRunning(ExecuteAppleScript(failed, BoolText(mailRunning) \o <<NL>>))
                   THEN "script" ELSE "activate"]
    /\ UNCHANGED <<store, outgoing, mailRunning, tvars>>

\* ensureMailRunning: await executeAppleScript('... activate')
CallerActivate(i) ==
    /\ th[i].pc = "activate"
    /\ \E failed \in BOOLEAN :
         LET outcome == ExecuteAppleScript(failed, <<>>)
         IN  IF outcome.kind = "reject"
             THEN /\ th' = [th EXCEPT ![i].svc = Thrown(outcome.message),
                                      ![i].pc = "returned"]
                  /\ UNCHANGED mailRunning
             ELSE /\ mailRunning' = TRUE
                  /\ th' = [th EXCEPT ![i].pc = "delay"]
    /\ UNCHANGED <<store, outgoing, tvars>>

\* ensureMailRunning: the delay after activation.
CallerDelay(i) ==
    /\ th[i].pc = "delay"
    /\ th' = [th EXCEPT ![i].pc = "script"]
    /\ UNCHANGED <<store, outgoing, mailRunning, tvars>>

\* A subprocess spawned only while no other script is in flight.
CallerSpawn_Exclusive(i) ==
    /\ th[i].pc = "script"
    /\ \A j \in Callers \ {i} : th[j].pc # "running"
    /\ th' = [th EXCEPT ![i].pc = "running"]
    /\ UNCHANGED <<store, outgoing, mailRunning, tvars>>

\* executeAppleScriptFile(script): the subprocess is spawned and the
\* script written to it.
CallerSpawn(i) ==
    /\ th[i].pc = "script"
    /\ th' = [th EXCEPT ![i].pc = "running"]
    /\ UNCHANGED <<store, outgoing, mailRunning, tvars>>

\* The subprocess closes: Mail has run the script, or osascript failed
\* for a reason outside the script.
CallerClose(i) ==
    /\ th[i].pc = "running"
    /\ \E f \in {"refused", "runs"} :
         LET r == IF f = "refused" THEN Refused(store, outgoing)
                  ELSE MailRuns(ServiceScript(th[i].call), store, outgoing)
         IN  /\ th' = [th EXCEPT ![i].proc = OnClose(r.code, r.stdout, r.stderr),
                                 ![i].pc = "settled"]
             /\ store' = r.store
             /\ outgoing' = r.outgoing
    /\ UNCHANGED <<mailRunning, tvars>>

\* The operation resumes after its await and returns.
CallerReturn(i) ==
    /\ th[i].pc = "settled"
    /\ th' = [th EXCEPT ![i].svc = ServiceResult(th[i].call, th[i].proc),
                        ![i].pc = "returned"]
    /\ UNCHANGED <<store, outgoing, mailRunning, tvars>>

\* The result is delivered; nothing of the call is kept.
CallerFinish(i) ==
    /\ th[i].pc = "returned"
    /\ th' = [th EXCEPT ![i] = IdleCaller]
    /\ UNCHANGED <<store, outgoing, mailRunning, tvars>>

TwoNext ==
    \/ \E i \in Callers : CallerStart(i)
    \/ \E i \in Callers : CallerCheck(i)
    \/ \E i \in Callers : CallerActivate(i)
    \/ \E i \in Callers : CallerDelay(i)
    \/ \E i \in Callers : CallerSpawn(i)
    \/ \E i \in Callers : CallerClose(i)
    \/ \E i \in Callers : CallerReturn(i)
    \/ \E i \in Callers : CallerFinish(i)

SpecTwo == TwoInit /\ [][TwoNext]_vars

\* C18: a call that is ready to start its script can always start it,
\* whatever the other call is doing, and a caller between calls holds
\* nothing of an earlier call.
C18_NoMutualExclusion ==
    \A i \in Callers :
        /\ th[i].pc = "script" => ENABLED CallerSpawn(i)
        /\ th[i].pc = "idle" => th[i] = IdleCaller

C18_Witness ==
    /\ th["a"].pc = "running" /\ th["b"].pc = "running"
    /\ th["a"].call.tool = "apple_mail_move_email"
    /\ th["b"].call.tool = "apple_mail_mark_read"
    /\ th["a"].call.params.message_id = th["b"].call.params.message_id
    /\ HasMessage(store, th["a"].call.params.message_id)

-----------------------------------------------------------------------------
\* C19: a search whose matching messages have no line feed and no marker
\* token in id, subject, sender, date and content returns one record per
\* matching message, with those values and the message's two flags.
MarkerFree(text) ==
    \A n \in 1..Len(text) : text[n] \notin {NL, "MESSAGE_START", "MESSAGE_END"}

CleanMessage(m) ==
    /\ MarkerFree(m.id) /\ MarkerFree(m.subject) /\ MarkerFree(m.sender)
    /\ MarkerFree(m.date) /\ MarkerFree(m.content)

SameMessage(record, m) ==
    /\ Defined(record, "id") /\ record.id = m.id
    /\ Defined(record, "subject") /\ record.subject = m.subject
    /\ Defined(record, "sender") /\ record.sender = m.sender
    /\ Defined(record, "date") /\ record.date = m.date
    /\ Defined(record, "content") /\ record.content = m.content
    /\ Defined(record, "read") /\ record.read = m.read
    /\ Defined(record, "flagged") /\ record.flagged = m.flagged

C19_BlockRoundTrip ==
    (ServiceDone /\ call.tool = "apple_mail_search" /\ fate = "runs"
        /\ proc.kind = "resolve") =>
        LET script == ServiceScript(call)
            found  == Collect(Collection(script.source, store).msgs,
                              script.conditions, script.limit, <<>>)
        IN  (\A n \in 1..Len(found) : CleanMessage(found[n])) =>
                /\ svc.kind = "return"
                /\ Len(svc.value) = Len(found)
                /\ \A n \in 1..Len(found) : SameMessage(svc.value[n], found[n])

-----------------------------------------------------------------------------
\* The text of a line before its first colon and after it; a line with no
\* colon is all key.
BeforeFirstColon(text) ==
    IF IndexOf(text, <<":">>) = 0 THEN text
    ELSE SubSeq(text, 1, IndexOf(text, <<":">>) - 1)

AfterFirstColon(text) ==
    IF IndexOf(text, <<":">>) = 0 THEN <<>>
    ELSE SubSeq(text, IndexOf(text, <<":">>) + 1, Len(text))

\* The property a key assigns as a string, per entity.
StringFields(e) ==
    CASE e = "message" ->
            {<<"ID", "id">>, <<"SUBJECT", "subject">>, <<"SENDER", "sender">>,
             <<"DATE", "date">>, <<"MAILBOX", "mailbox">>, <<"ACCOUNT", "account">>,
             <<"CONTENT", "content">>}
      [] e = "mailbox" -> {<<"NAME", "name">>, <<"ACCOUNT", "account">>}
      [] e = "account" -> {<<"NAME", "name">>, <<"TYPE", "type">>}
      [] e = "attachment" -> {<<"NAME", "name">>}

\* The keys the switch of an entity's parser has a case for.
RecognizedKeys(e) ==
    CASE e = "message" ->
            {"ID", "SUBJECT", "SENDER", "RECIPIENTS", "DATE", "READ", "FLAGGED",
             "MAILBOX", "ACCOUNT", "ATTACHMENT_COUNT", "CONTENT"}
      [] e = "mailbox" -> {"NAME", "ACCOUNT", "UNREAD", "TOTAL"}
      [] e = "account" -> {"NAME", "TYPE"}
      [] e = "attachment" -> {"NAME"}

\* The lines without line i.
WithoutLine(lines, i) == SubSeq(lines, 1, i - 1) \o SubSeq(lines, i + 1, Len(lines))

\* The text of a line without its line feed.
LineText(line) == SubSeq(line, 1, Len(line) - 1)

\* C21: in the record of a block, a string property holds what follows the
\* first colon of the last line with its key, trimmed, later colons kept;
\* and a line whose key the parser has no case for changes nothing: the
\* result is that of the block without the line.
C21_FirstColonSplits ==
    pdone =>
        LET lines == LinesOf(pin)
        IN  \A i \in 1..Len(lines) :
                LET key == BeforeFirstColon(LineText(lines[i]))
                IN  /\ \A kp \in StringFields(pEntity) :
                        (key = <<kp[1]>> /\ LastOfKey(lines, i) /\ Len(pout) = 1)
                        => /\ Defined(pout[1], kp[2])
                           /\ pout[1][kp[2]] = Trim(AfterFirstColon(LineText(lines[i])))
                    /\ (\A k \in RecognizedKeys(pEntity) : key # <<k>>)
                        => pout = ParserOf(pEntity, BlockText(pEntity, WithoutLine(lines, i)))

C21_Witness ==
    /\ pdone /\ pEntity = "message"
    /\ pin = <<<<Line("PRIORITY", <<"1">>)>>,
               <<Line("ID", <<"1">>), Line("SUBJECT", <<"s">>)>>,
               <<Line("SUBJECT", <<"R", "e", ":", " ", "a", ":", "b">>)>>>>
    /\ Len(pout) = 1
    /\ pout[1].subject = <<"R", "e", ":", " ", "a", ":", "b">>
    /\ DOMAIN pout[1] = {"id", "subject"}

-----------------------------------------------------------------------------
\* C22: the fetch-by-id script looks in the mailbox of the account when
\* both are supplied, in the mailbox when only the mailbox is, and across
\* all messages otherwise; an account supplied alone is ignored.
C22_LookupPrecedence ==
    call.tool = "apple_mail_get_email" =>
        LET mb     == call.params.mailbox
            acc    == call.params.account
            lookup == ServiceScript(call).lookup
        IN  /\ (Supplied(mb) /\ Supplied(acc))
                    => lookup = <<"mailbox of account", mb[1], acc[1]>>
            /\ (Supplied(mb) /\ ~Supplied(acc)) => lookup = <<"mailbox", mb[1]>>
            /\ ~Supplied(mb) => lookup = <<"every message">>
            /\ ~Supplied(mb) =>
                    ServiceScript(call) = ServiceScript([call EXCEPT !.params.account = None])

\* A message of account A is found by a request that names account B only.
C22_Witness ==
    /\ pc = "settled" /\ call.tool = "apple_mail_get_email" /\ fate = "runs"
    /\ ~Supplied(call.params.mailbox) /\ Supplied(call.params.account)
    /\ HasMessage(store, call.params.message_id)
    /\ store[IndexOfMessage(store, call.params.message_id)].account
            # call.params.account[1]
    /\ proc.kind = "resolve" /\ proc.value # <<"NOT_FOUND">>

-----------------------------------------------------------------------------
\* The text of the script the draft operations build for a call.
DraftText(c) ==
    IF c.tool = "apple_mail_send_email" THEN SendText(DraftOf(c.params))
    ELSE CreateDraftText(DraftOf(c.params))

IsRecipientStatement(s) == Head(s) \in {MakeRecipient(k) : k \in {"to", "cc", "bcc"}}

\* The recipient statements a draft calls for: all to, then cc, then bcc.
ExpectedRecipients(draft) ==
    [n \in 1..Len(draft.to) |-> <<MakeRecipient("to"), DQ>> \o draft.to[n] \o <<DQ, "}">>]
    \o (IF draft.cc = None THEN <<>>
        ELSE [n \in 1..Len(draft.cc[1]) |->
                <<MakeRecipient("cc"), DQ>> \o draft.cc[1][n] \o <<DQ, "}">>])
    \o (IF draft.bcc = None THEN <<>>
        ELSE [n \in 1..Len(draft.bcc[1]) |->
                <<MakeRecipient("bcc"), DQ>> \o draft.bcc[1][n] \o <<DQ, "}">>])

\* C23: the script of createDraft and of sendEmail holds one recipient
\* statement per address, all to, then all cc, then all bcc; the send
\* directive once and after the recipients in the send script, never in the
\* draft script; and both end by returning the identifier.
C23_DraftStatements ==
    call.tool \in {"apple_mail_create_draft", "apple_mail_send_email"} =>
        LET stmts == Statements(DraftText(call))
            sends == {n \in 1..Len(stmts) : stmts[n] = <<"send">>}
            recps == {n \in 1..Len(stmts) : IsRecipientStatement(stmts[n])}
        IN  /\ SelectSeq(stmts, IsRecipientStatement) = ExpectedRecipients(DraftOf(call.params))
            /\ IF call.tool = "apple_mail_send_email"
               THEN Cardinality(sends) = 1 /\ \A s \in sends, r \in recps : r < s
               ELSE sends = {}
            /\ Len(stmts) >= 2
            /\ stmts[Len(stmts) - 1] = <<"return id of newMessage as text">>
            /\ stmts[Len(stmts)] = <<"end tell">>

\* The same for the drafts whose subject and content hold no double quote.
QuoteFreeDraftStatements ==
    (/\ call.tool \in {"apple_mail_create_draft", "apple_mail_send_email"}
     /\ ~Includes(call.params.subject, <<DQ>>)
     /\ ~Includes(call.params.content, <<DQ>>)) => C23_DraftStatements

-----------------------------------------------------------------------------
\* The fragment a record of the output was read from: the digit its first
\* field carries.
FragmentOfRecord(e, record) ==
    LET field == IF e = "message" THEN "id" ELSE "name"
        at    == IF e = "message" THEN 1 ELSE 2
    IN  IF Defined(record, field) /\ Len(record[field]) = at
           /\ IsDigit(record[field][at])
        THEN DigitValue(record[field][at]) ELSE 0

RecordsOfFragment(i) ==
    {n \in 1..Len(pout) : FragmentOfRecord(pEntity, pout[n]) = i}

\* C24: a segment that follows a start marker and holds no end marker
\* gives no record, in each of the four parsers and whatever fields it
\* holds, and every terminated block after it still gives its record.
C24_UnterminatedDropped ==
    pdone =>
        \A i \in 1..Len(pin) :
            pin[i] = "noend" =>
                /\ RecordsOfFragment(i) = {}
                /\ \A j \in (i + 1)..Len(pin) :
                        pin[j] = "block" => Cardinality(RecordsOfFragment(j)) = 1

C24_Witness ==
    /\ pdone /\ pEntity = "mailbox"
    /\ pin = <<"noend", "block", "noend">>
    /\ Len(pout) = 1
    /\ pout[1].name = <<"m", "2">>


-----------------------------------------------------------------------------
\* The base-10 integer a text starts with, after blanks and a sign; the
\* not-a-number sentinel when it starts with none.
Base10Integer(value) ==
    LET t    == TrimStart(value)
        neg  == t # <<>> /\ Head(t) = "-"
        body == IF t # <<>> /\ Head(t) \in {"-", "+"} THEN Tail(t) ELSE t
        ds   == DigitPrefix(body)
    IN  IF ds = <<>> THEN NaN
        ELSE Num(IF neg THEN 0 - DecimalValue(ds) ELSE DecimalValue(ds))

\* The property a key assigns as a number, per entity.
NumericFields(e) ==
    CASE e = "message" -> {<<"ATTACHMENT_COUNT", "attachmentCount">>}
      [] e = "mailbox" -> {<<"UNREAD", "unreadCount">>, <<"TOTAL", "totalCount">>}
      [] OTHER -> {}

\* A numeric property of the record holds the base-10 integer of the last
\* line with its key.
NumbersAreBase10 ==
    (pdone /\ Len(pout) = 1) =>
        LET lines == LinesOf(pin)
        IN  \A i \in 1..Len(lines) : \A kp \in NumericFields(pEntity) :
                (BeforeFirstColon(LineText(lines[i])) = <<kp[1]>> /\ LastOfKey(lines, i))
                => /\ Defined(pout[1], kp[2])
                   /\ pout[1][kp[2]] = Base10Integer(AfterFirstColon(LineText(lines[i])))

\* A numeric line whose value starts with no digit sets the property, to
\* the not-a-number sentinel.
NonNumericIsNaN ==
    (pdone /\ Len(pout) = 1) =>
        LET lines == LinesOf(pin)
        IN  \A i \in 1..Len(lines) : \A kp \in NumericFields(pEntity) :
                (/\ BeforeFirstColon(LineText(lines[i])) = <<kp[1]>>
                 /\ LastOfKey(lines, i)
                 /\ Base10Integer(AfterFirstColon(LineText(lines[i]))) = NaN)
                => /\ Defined(pout[1], kp[2])
                   /\ pout[1][kp[2]] = NaN

\* A record with attachmentCount has hasAttachments, true exactly when the
\* count is a number above 0.
HasAttachmentsFollowsCount ==
    (pdone /\ pEntity = "message") =>
        \A n \in 1..Len(pout) :
            Defined(pout[n], "attachmentCount") =>
                /\ Defined(pout[n], "hasAttachments")
                /\ pout[n].hasAttachments =
                        (~pout[n].attachmentCount.nan /\ pout[n].attachmentCount.val > 0)

\* C25: numeric fields are read as base-10 integers; a non-numeric value
\* of ATTACHMENT_COUNT, UNREAD or TOTAL sets the field to the not-a-number
\* sentinel; a record with attachmentCount has hasAttachments, true
\* exactly when the count is a number above 0.
C25_NumericFields ==
    /\ NumbersAreBase10
    /\ NonNumericIsNaN
    /\ HasAttachmentsFollowsCount


-----------------------------------------------------------------------------
\* C26: the promise of executeAppleScriptFile settles exactly once in
\* every order of the data, error and close events: once settled it never
\* changes and the close event leaves it settled; a launch error rejects
\* with "AppleScript execution failed: <message>" and the close event
\* after it changes nothing; each stdout chunk is put after the ones that
\* arrived before it; a close event with a null code rejects.
C26_SettlesOnce ==
    /\ [][proc.kind # "none" => proc' = proc]_vars
    /\ [](child.state = "closed" => proc.kind # "none")
    /\ [](child.error =>
            proc = Rejected(<<"AppleScript execution failed: ", "spawn osascript ENOENT">>))
    /\ [][child'.stdout # child.stdout =>
            \E chunk \in StdoutChunks : child'.stdout = child.stdout \o chunk]_vars
    /\ []((child.state = "closed" /\ ~child.error /\ child.code = 0)
            => proc = Resolved(Trim(child.stdout)))
    /\ []((child.state = "closed" /\ child.code = NullCode) => proc.kind = "reject")

\* The subprocess failed to launch and its close event has been handled.
C26_Witness ==
    /\ child.state = "closed" /\ child.error
    /\ child.code = NullCode
    /\ proc = OnError(<<"spawn osascript ENOENT">>)


-----------------------------------------------------------------------------
\* The messages of the store with the requested identifier in the scope
\* the request selects: the mailbox of the account, the mailbox, or all.
RequestedInScope ==
    LET mb  == call.params.mailbox
        acc == call.params.account
    IN  {n \in 1..Len(store) :
            /\ store[n].id = call.params.message_id
            /\ Supplied(mb) => store[n].mailbox = mb[1]
            /\ (Supplied(mb) /\ Supplied(acc)) => store[n].account = acc[1]}

\* C27: when the store holds a message with the requested identifier in
\* the selected scope, getEmailById returns a record with that identifier,
\* whatever the message holds (an empty subject included); it returns the
\* absent result only when the lookup finds no message.
C27_StoredMessageIsReturned ==
    (ServiceDone /\ call.tool = "apple_mail_get_email" /\ fate = "runs") =>
        /\ RequestedInScope # {} =>
                /\ svc.kind = "return"
                /\ svc.value # None
                /\ Defined(svc.value[1], "id")
                /\ svc.value[1].id = call.params.message_id
        /\ (svc.kind = "return" /\ svc.value = None) => RequestedInScope = {}

\* The same for the stores whose messages all have a subject.
StoredMessageWithSubjectIsReturned ==
    (\A n \in 1..Len(store) : store[n].subject # <<>>) => C27_StoredMessageIsReturned


-----------------------------------------------------------------------------
\* The fields EmailMessage declares without a question mark.
DeclaredFields == {"id", "subject", "sender", "date", "read", "flagged", "content"}

HasDeclaredFields(record) == \A field \in DeclaredFields : Defined(record, field)

\* Every record parseEmailMessages reads from a block has the declared
\* fields.
ParsedBlockHasDeclaredFields ==
    (pdone /\ pEntity = "message") => \A n \in 1..Len(pout) : HasDeclaredFields(pout[n])

\* C28: every record parseEmailMessages returns has id, subject, sender,
\* date, read, flagged and content defined, so that the truncation of the
\* content in the search tool never fails on a record.
C28_RecordsAreEmailMessages ==
    call.tool = "apple_mail_search" =>
        /\ (ServiceDone /\ svc.kind = "return") =>
                \A n \in 1..Len(svc.value) : HasDeclaredFields(svc.value[n])
        /\ (pc = "done" /\ svc.kind = "return") => ~res.isError


-----------------------------------------------------------------------------
====
